---- MODULE Spec2Model ----
(***************************************************************************)
(* Model of the barrier MPSC queue (sp::MPSCQueue with the done-file       *)
(* counter) and of the per-file reader loop (sp::ChunkedFileReader::Run).  *)
(*                                                                         *)
(* Granularity.  The mutex is a variable (mutex_ holds its owner).  A      *)
(* critical section that only touches mutex-protected data is one step     *)
(* that needs the mutex free.  std::condition_variable::wait(lock, pred)   *)
(* is "while (!pred()) wait(lock)": the predicate is evaluated holding the *)
(* mutex (one step), and a false predicate is followed by a second step    *)
(* that atomically releases the mutex and joins the wait set cv_.  The     *)
(* done counter is a std::atomic read and written WITHOUT the mutex, so    *)
(* ++done_file_count_, store(0) and the notify calls are steps of their    *)
(* own that interleave with everything.                                    *)
(***************************************************************************)
EXTENDS Integers, Sequences, FiniteSets, TLC

\* ---------------------------------------------------------------- bounds
NumProducers == 2      \* producer threads (generic clients, or readers)
MaxItems == 3          \* items the generic producers enqueue altogether
MaxLines == 2          \* lines per input file
MaxHour == 2           \* time-bucket keys are 0..MaxHour
MaxBytes == 4          \* length of a file on disk, in bytes
MaxByte == 2           \* bytes are 0 (the '\n' terminator) and 1..MaxByte
MaxWindow == 3         \* window sizes a cursor is opened with are 1..MaxWindow
PageSize == 2          \* sysconf(_SC_PAGE_SIZE), scaled down from 4096
MaxText == 2           \* length of a text passed to WriteLine
MaxFile == 6           \* length a file may grow to by WriteLine
MaxApiBytes == 2       \* length of the file an MMF object is constructed on
MaxOldBytes == 1       \* length of the file a writer is constructed on
MaxWrites == 2         \* WriteLine calls on one object
MaxCycles == 2          \* Reset calls of a read/Reset test
MaxObjects == 2        \* MMF objects alive at a time (mmf1, mmf2 of the tests)
MaxBuckets == 3        \* lines, and time buckets, of the files with equal buckets

\* The source fixes the expected producer count at 10000; the model scales
\* it to the number of producer threads, the configuration the barrier is
\* specified for.
total_files_ == NumProducers

Consumer == 0
Producers == 1..NumProducers
Threads == {Consumer} \cup Producers
Free == -1
Hours == 0..MaxHour
EmptyLine == -1

\* std::optional<T>: nullopt is <<>>, a value v is <<v>>.
nullopt == <<>>
Some(v) == <<v>>

\* sp::MktDataMessage {symbol_, mkt_data_, batch_id_}
MktDataMessage(p_symbol, p_mkt_data, p_batch_id) ==
  [symbol_ |-> p_symbol, mkt_data_ |-> p_mkt_data, batch_id_ |-> p_batch_id]

VARIABLES
  queue_,            \* std::deque<T> queue_  (shared, under mutex_)
  cache_,            \* std::deque<T> cache_  (consumer side)
  mutex_,            \* owner of mutex_, or Free
  cv_,               \* threads blocked inside cv_.wait
  done_file_count_,  \* std::atomic_size_t
  pc,                \* position of every thread
  file,              \* reader: the lines of its input file (bucket key per line)
  pos,               \* reader: lines consumed so far from its cursor
  line_opt,          \* reader: index of the line held in line_opt (0: none)
  hour,              \* reader: local `hour`
  prev_hour_,        \* reader: local `prev_hour_`
  stop_flag_,        \* reader: std::atomic<bool> stop_flag_
  disk,              \* cursor: the bytes of the file on disk (read-only)
  mmf_,              \* cursor: the data members of sp::MMF, as a record
  chunk_size_,       \* cursor: the window size the cursor was opened with
  reads,             \* history: per ReadLine/ReadLineView call, the cursor before
                     \*          the call and what the call returned
  nextSeq,           \* generic producer: payload number of its next item
  enqLog,            \* history: items in the order they were appended
  deqLog,            \* history: items in the order the consumer got them
  tryObs,            \* history: TryDequeue in progress <<oldest pending item at the call, result>>
  doneCalls,         \* history: ProducerDone calls since the last reset
  barrier,           \* history: per reader "none", "done" (ProducerDone made, no reset
                     \*          since) or "reset" (a reset followed its ProducerDone)
  enqEpochs,         \* history: per appended item, the resets made before it
  epoch              \* history: resets made so far

qvars == <<queue_, cache_, mutex_, cv_, done_file_count_>>
mvars == <<disk, mmf_, chunk_size_, reads>>
rvars == <<file, pos, line_opt, hour, prev_hour_, stop_flag_, mvars>>
hvars == <<nextSeq, enqLog, deqLog, tryObs, doneCalls, barrier, enqEpochs, epoch>>
vars == <<queue_, cache_, mutex_, cv_, done_file_count_, pc,
          file, pos, line_opt, hour, prev_hour_, stop_flag_,
          disk, mmf_, chunk_size_, reads,
          nextSeq, enqLog, deqLog, tryObs, doneCalls, barrier, enqEpochs, epoch>>

\* ------------------------------------------------------ condition variable
\* Labels of a thread inside cv_.wait and the label it resumes at (it has to
\* re-acquire the mutex and re-evaluate its predicate).
WakePc(l) ==
  CASE l = "deq_blocked" -> "deq_lock"
    [] l = "wait_blocked" -> "wait_lock"
    [] l = "run_wait_blocked" -> "run_wait_lock"
    [] OTHER -> l

\* cv_.notify_one() by thread t, which continues at label next.
NotifyOne(t, next) ==
  \/ /\ cv_ = {}
     /\ cv_' = cv_
     /\ pc' = [pc EXCEPT ![t] = next]
  \/ \E w \in cv_ :
       /\ cv_' = cv_ \ {w}
       /\ pc' = [pc EXCEPT ![w] = WakePc(pc[w]), ![t] = next]

\* cv_.notify_all() by thread t, which continues at label next.
NotifyAll(t, next) ==
  /\ cv_' = {}
  /\ pc' = [w \in Threads |->
              IF w = t THEN next
              ELSE IF w \in cv_ THEN WakePc(pc[w]) ELSE pc[w]]

\* The second half of cv_.wait: the predicate was false; release the mutex
\* and block, atomically.
CvBlock(t, blocked) ==
  /\ mutex_ = t
  /\ mutex_' = Free
  /\ cv_' = cv_ \cup {t}
  /\ pc' = [pc EXCEPT ![t] = blocked]

\* A waiting thread may wake without a notification (spurious wake-up).
SpuriousWakeup(t) ==
  /\ t \in cv_
  /\ cv_' = cv_ \ {t}
  /\ pc' = [pc EXCEPT ![t] = WakePc(pc[t])]
  /\ UNCHANGED <<queue_, cache_, mutex_, done_file_count_>>
  /\ UNCHANGED rvars
  /\ UNCHANGED hvars

\* ------------------------------------------------------- queue operations
\* (variant: a bounded queue whose Enqueue waits on cv_ while two items are
\* pending)
EnqueueLocked_Bounded(t, value, next) ==
  /\ mutex_ = Free
  /\ IF Len(queue_) >= 2
       THEN /\ cv_' = cv_ \cup {t}
            /\ UNCHANGED <<queue_, enqLog, pc>>
       ELSE /\ queue_' = Append(queue_, value)
            /\ enqLog' = Append(enqLog, value)
            /\ pc' = [pc EXCEPT ![t] = next]
            /\ UNCHANGED cv_
  /\ UNCHANGED <<cache_, mutex_, done_file_count_>>

\* Enqueue, the locked block: lock_guard; queue_.push_back(value).
EnqueueLocked(t, value, next) ==
  /\ mutex_ = Free
  /\ queue_' = Append(queue_, value)
  /\ enqLog' = Append(enqLog, value)
  /\ pc' = [pc EXCEPT ![t] = next]
  /\ UNCHANGED <<cache_, mutex_, cv_, done_file_count_>>

BulkEnqueueLocked_Front(t, values, next) ==
  /\ mutex_ = Free
  /\ queue_' = <<Head(values)>> \o queue_ \o Tail(values)
  /\ enqLog' = enqLog \o values
  /\ pc' = [pc EXCEPT ![t] = next]
  /\ UNCHANGED <<cache_, mutex_, cv_, done_file_count_>>

\* BulkEnqueue, the locked block: push_back every value of the batch.
BulkEnqueueLocked(t, values, next) ==
  /\ mutex_ = Free
  /\ queue_' = queue_ \o values
  /\ enqLog' = enqLog \o values
  /\ pc' = [pc EXCEPT ![t] = next]
  /\ UNCHANGED <<cache_, mutex_, cv_, done_file_count_>>

\* (variant: front() without pop_front())
TakeFromCache_NoPop ==
  /\ cache_ # <<>>
  /\ cache_' = cache_
  /\ deqLog' = Append(deqLog, Head(cache_))
  /\ UNCHANGED <<queue_, mutex_, cv_, done_file_count_>>

\* Dequeue/TryDequeue fast path: the cache holds an item.
TakeFromCache ==
  /\ cache_ # <<>>
  /\ cache_' = Tail(cache_)
  /\ deqLog' = Append(deqLog, Head(cache_))
  /\ UNCHANGED <<queue_, mutex_, cv_, done_file_count_>>

\* (variant: back()/pop_back() instead of front()/pop_front())
TakeFromQueue_PopBack ==
  /\ queue_ # <<>>
  /\ deqLog' = Append(deqLog, queue_[Len(queue_)])
  /\ IF Len(queue_) > 1
       THEN /\ queue_' = cache_
            /\ cache_' = SubSeq(queue_, 1, Len(queue_) - 1)
       ELSE /\ queue_' = <<>>
            /\ cache_' = cache_

\* Dequeue/TryDequeue under the mutex with a non-empty queue: pop the front
\* and, if items remain, cache_.swap(queue_).
TakeFromQueue ==
  /\ queue_ # <<>>
  /\ deqLog' = Append(deqLog, Head(queue_))
  /\ IF Tail(queue_) # <<>>
       THEN /\ queue_' = cache_
            /\ cache_' = Tail(queue_)
       ELSE /\ queue_' = Tail(queue_)
            /\ cache_' = cache_

\* Dequeue after the cache was found empty: lock and evaluate the wait
\* predicate !queue_.empty().
DequeueLocked(t) ==
  /\ cache_ = <<>>
  /\ mutex_ = Free
  /\ IF queue_ # <<>>
       THEN /\ TakeFromQueue
            /\ pc' = [pc EXCEPT ![t] = "idle"]
            /\ UNCHANGED <<mutex_, cv_, done_file_count_>>
       ELSE /\ mutex_' = t
            /\ pc' = [pc EXCEPT ![t] = "deq_wait"]
            /\ UNCHANGED <<queue_, cache_, cv_, done_file_count_, deqLog>>

Pending == cache_ \o queue_
Oldest == IF Pending = <<>> THEN nullopt ELSE Some(Head(Pending))

\* (variant: no cache fast path, the queue is looked at directly)
TryDequeueReturns_NoCache(res) ==
  /\ mutex_ = Free
  /\ IF queue_ = <<>>
       THEN /\ res = nullopt
            /\ UNCHANGED <<queue_, cache_, deqLog>>
       ELSE /\ deqLog' = Append(deqLog, Head(queue_))
            /\ queue_' = Tail(queue_)
            /\ cache_' = cache_
            /\ res = Some(Head(queue_))
  /\ UNCHANGED <<mutex_, cv_, done_file_count_>>

\* TryDequeue returning res: cache first, else lock_guard and look at the
\* queue.
TryDequeueReturns(res) ==
  \/ /\ TakeFromCache
     /\ res = Some(Head(cache_))
  \/ /\ cache_ = <<>>
     /\ mutex_ = Free
     /\ IF queue_ = <<>>
          THEN /\ res = nullopt
               /\ UNCHANGED <<queue_, cache_, deqLog>>
          ELSE /\ TakeFromQueue
               /\ res = Some(Head(queue_))
     /\ UNCHANGED <<mutex_, cv_, done_file_count_>>

Results == {nullopt} \cup {Some(enqLog[i]) : i \in 1..Len(enqLog)}

\* A TryDequeue call of the generic consumer; the oldest pending item at the
\* call and the result are kept until the call has returned.
TryDequeue(t) ==
  /\ pc[t] = "idle"
  /\ \E res \in Results :
       /\ TryDequeueReturns(res)
       /\ tryObs' = <<Oldest, res>>
  /\ pc' = [pc EXCEPT ![t] = "try_return"]
  /\ UNCHANGED <<nextSeq, enqLog, doneCalls, barrier, enqEpochs, epoch>>
  /\ UNCHANGED rvars

TryDequeueReturn(t) ==
  /\ pc[t] = "try_return"
  /\ pc' = [pc EXCEPT ![t] = "idle"]
  /\ tryObs' = <<>>
  /\ UNCHANGED <<queue_, cache_, mutex_, cv_, done_file_count_>>
  /\ UNCHANGED <<nextSeq, enqLog, deqLog, doneCalls, barrier, enqEpochs, epoch>>
  /\ UNCHANGED rvars

\* Empty(): cache first, else lock_guard and queue_.empty().
Empty == cache_ = <<>> /\ queue_ = <<>>

ProducerDoneIncrement_Twice(t, next) ==
  /\ done_file_count_' = done_file_count_ + 2
  /\ doneCalls' = doneCalls + 1
  /\ pc' = [pc EXCEPT ![t] = next]
  /\ UNCHANGED <<queue_, cache_, mutex_, cv_>>

\* ProducerDone, first statement: ++done_file_count_ (atomic, no mutex).
ProducerDoneIncrement(t, next) ==
  /\ done_file_count_' = done_file_count_ + 1
  /\ doneCalls' = doneCalls + 1
  /\ pc' = [pc EXCEPT ![t] = next]
  /\ UNCHANGED <<queue_, cache_, mutex_, cv_>>

\* (variant: > instead of >=)
IsDone_Greater == done_file_count_ > total_files_

\* IsDone(): done_file_count_.load() >= total_files_
IsDone == done_file_count_ >= total_files_

InWait(t) == pc[t] \in {"wait_lock", "wait_enter", "wait_blocked",
                        "run_wait_lock", "run_wait_enter", "run_wait_blocked"}

\* ResetDoneFileCount, first statement: done_file_count_.store(0).
ResetStore(t, next) ==
  /\ done_file_count_' = 0
  /\ doneCalls' = 0
  /\ pc' = [pc EXCEPT ![t] = next]
  /\ UNCHANGED <<queue_, cache_, mutex_, cv_>>

\* (variant: the wait predicate is "the epoch is not complete")
WaitLocked_NotComplete(t, returned, enter) ==
  /\ mutex_ = Free
  /\ IF done_file_count_ < total_files_
       THEN /\ pc' = [pc EXCEPT ![t] = returned]
            /\ UNCHANGED mutex_
       ELSE /\ pc' = [pc EXCEPT ![t] = enter]
            /\ mutex_' = t
  /\ UNCHANGED <<queue_, cache_, cv_, done_file_count_>>

\* WaitUntilDoneFileReset: unique_lock, then the wait predicate
\* done_file_count_.load() == 0 evaluated under the mutex.
WaitLocked(t, returned, enter) ==
  /\ mutex_ = Free
  /\ IF done_file_count_ = 0
       THEN /\ pc' = [pc EXCEPT ![t] = returned]
            /\ UNCHANGED mutex_
       ELSE /\ pc' = [pc EXCEPT ![t] = enter]
            /\ mutex_' = t
  /\ UNCHANGED <<queue_, cache_, cv_, done_file_count_>>

\* ------------------------------------------------ generic queue clients
\* Producer threads call Enqueue, BulkEnqueue, ProducerDone and
\* WaitUntilDoneFileReset in any order; the consumer thread calls Dequeue,
\* TryDequeue and ResetDoneFileCount in any order.

NextItem(p, k) == MktDataMessage(p, nextSeq[p] + k, 0)

Enqueue(p) ==
  /\ pc[p] = "idle"
  /\ Len(enqLog) < MaxItems
  /\ EnqueueLocked(p, NextItem(p, 0), "enq_notify")
  /\ nextSeq' = [nextSeq EXCEPT ![p] = @ + 1]
  /\ UNCHANGED <<deqLog, tryObs, doneCalls, barrier, enqEpochs, epoch>>
  /\ UNCHANGED rvars

EnqueueNotify(p) ==
  /\ pc[p] = "enq_notify"
  /\ NotifyOne(p, "idle")
  /\ UNCHANGED <<queue_, cache_, mutex_, done_file_count_>>
  /\ UNCHANGED rvars
  /\ UNCHANGED hvars

BulkEnqueue(p) ==
  /\ pc[p] = "idle"
  /\ Len(enqLog) + 2 <= MaxItems
  /\ BulkEnqueueLocked(p, <<NextItem(p, 0), NextItem(p, 1)>>, "bulk_notify")
  /\ nextSeq' = [nextSeq EXCEPT ![p] = @ + 2]
  /\ UNCHANGED <<deqLog, tryObs, doneCalls, barrier, enqEpochs, epoch>>
  /\ UNCHANGED rvars

BulkEnqueueNotify(p) ==
  /\ pc[p] = "bulk_notify"
  /\ NotifyAll(p, "idle")
  /\ UNCHANGED <<queue_, cache_, mutex_, done_file_count_>>
  /\ UNCHANGED rvars
  /\ UNCHANGED hvars

ProducerDone(p) ==
  /\ pc[p] = "idle"
  /\ doneCalls < total_files_
  /\ ProducerDoneIncrement(p, "pd_notify")
  /\ UNCHANGED <<nextSeq, enqLog, deqLog, tryObs, barrier, enqEpochs, epoch>>
  /\ UNCHANGED rvars

ProducerDoneNotify(p) ==
  /\ pc[p] = "pd_notify"
  /\ NotifyAll(p, "idle")
  /\ UNCHANGED <<queue_, cache_, mutex_, done_file_count_>>
  /\ UNCHANGED rvars
  /\ UNCHANGED hvars

WaitUntilDoneFileReset(p) ==
  /\ pc[p] \in {"idle", "wait_lock"}
  /\ WaitLocked(p, "idle", "wait_enter")
  /\ UNCHANGED <<nextSeq, enqLog, deqLog, tryObs, doneCalls, barrier, enqEpochs, epoch>>
  /\ UNCHANGED rvars

WaitBlock(p) ==
  /\ pc[p] = "wait_enter"
  /\ CvBlock(p, "wait_blocked")
  /\ UNCHANGED <<queue_, cache_, done_file_count_>>
  /\ UNCHANGED rvars
  /\ UNCHANGED hvars

DequeueCached(c) ==
  /\ pc[c] = "idle"
  /\ TakeFromCache
  /\ UNCHANGED <<pc, nextSeq, enqLog, tryObs, doneCalls, barrier, enqEpochs, epoch>>
  /\ UNCHANGED rvars

Dequeue(c) ==
  /\ pc[c] \in {"idle", "deq_lock"}
  /\ DequeueLocked(c)
  /\ UNCHANGED <<nextSeq, enqLog, tryObs, doneCalls, barrier, enqEpochs, epoch>>
  /\ UNCHANGED rvars

DequeueBlock(c) ==
  /\ pc[c] = "deq_wait"
  /\ CvBlock(c, "deq_blocked")
  /\ UNCHANGED <<queue_, cache_, done_file_count_>>
  /\ UNCHANGED rvars
  /\ UNCHANGED hvars

ResetDoneFileCount(c) ==
  /\ pc[c] = "idle"
  /\ ResetStore(c, "reset_notify")
  /\ UNCHANGED <<nextSeq, enqLog, deqLog, tryObs, barrier, enqEpochs, epoch>>
  /\ UNCHANGED rvars

ResetNotify(c) ==
  /\ pc[c] = "reset_notify"
  /\ NotifyAll(c, "idle")
  /\ UNCHANGED <<queue_, cache_, mutex_, done_file_count_>>
  /\ UNCHANGED rvars
  /\ UNCHANGED hvars

InitQueue ==
  /\ queue_ = <<>>
  /\ cache_ = <<>>
  /\ mutex_ = Free
  /\ cv_ = {}
  /\ done_file_count_ = 0
  /\ nextSeq = [p \in Producers |-> 1]
  /\ enqLog = <<>>
  /\ deqLog = <<>>
  /\ tryObs = <<>>
  /\ doneCalls = 0
  /\ barrier = [p \in Producers |-> "none"]
  /\ enqEpochs = <<>>
  /\ epoch = 0

\* No file is open: the queue's clients, and the readers whose cursor is
\* abstracted to a list of lines, do not touch the byte-level cursor.
NoCursor ==
  /\ disk = <<>>
  /\ mmf_ = <<>>
  /\ chunk_size_ = 0
  /\ reads = <<>>

Init ==
  /\ InitQueue
  /\ NoCursor
  /\ pc = [t \in Threads |-> "idle"]
  /\ file = [p \in Producers |-> <<>>]
  /\ pos = [p \in Producers |-> 0]
  /\ line_opt = [p \in Producers |-> 0]
  /\ hour = [p \in Producers |-> 0]
  /\ prev_hour_ = [p \in Producers |-> 0]
  /\ stop_flag_ = [p \in Producers |-> FALSE]

ProducerStep(p) ==
  \/ EnqueueNotify(p)
  \/ BulkEnqueueNotify(p)
  \/ ProducerDoneNotify(p)
  \/ WaitBlock(p)
  \/ (pc[p] = "wait_lock" /\ WaitUntilDoneFileReset(p))

ConsumerStep(c) ==
  \/ DequeueBlock(c)
  \/ TryDequeueReturn(c)
  \/ ResetNotify(c)
  \/ (pc[c] = "deq_lock" /\ Dequeue(c))

Next ==
  \/ \E p \in Producers : Enqueue(p)
  \/ \E p \in Producers : EnqueueNotify(p)
  \/ \E p \in Producers : BulkEnqueue(p)
  \/ \E p \in Producers : BulkEnqueueNotify(p)
  \/ \E p \in Producers : ProducerDone(p)
  \/ \E p \in Producers : ProducerDoneNotify(p)
  \/ \E p \in Producers : WaitUntilDoneFileReset(p)
  \/ \E p \in Producers : WaitBlock(p)
  \/ DequeueCached(Consumer)
  \/ Dequeue(Consumer)
  \/ DequeueBlock(Consumer)
  \/ TryDequeue(Consumer)
  \/ TryDequeueReturn(Consumer)
  \/ ResetDoneFileCount(Consumer)
  \/ ResetNotify(Consumer)
  \/ \E t \in Threads : SpuriousWakeup(t)

Spec == Init /\ [][Next]_vars

\* The clients that only move items: producers call Enqueue and BulkEnqueue,
\* the consumer calls Dequeue and TryDequeue.
QueueNext ==
  \/ \E p \in Producers : Enqueue(p)
  \/ \E p \in Producers : EnqueueNotify(p)
  \/ \E p \in Producers : BulkEnqueue(p)
  \/ \E p \in Producers : BulkEnqueueNotify(p)
  \/ DequeueCached(Consumer)
  \/ Dequeue(Consumer)
  \/ DequeueBlock(Consumer)
  \/ TryDequeue(Consumer)
  \/ TryDequeueReturn(Consumer)
  \/ \E t \in Threads : SpuriousWakeup(t)

QueueSpec == Init /\ [][QueueNext]_vars

\* The clients that only use the epoch barrier: producers call ProducerDone
\* and WaitUntilDoneFileReset, the consumer calls ResetDoneFileCount (and
\* Dequeue, which waits on the same condition variable).
BarrierNext ==
  \/ \E p \in Producers : ProducerDone(p)
  \/ \E p \in Producers : ProducerDoneNotify(p)
  \/ \E p \in Producers : WaitUntilDoneFileReset(p)
  \/ \E p \in Producers : WaitBlock(p)
  \/ Dequeue(Consumer)
  \/ DequeueBlock(Consumer)
  \/ ResetDoneFileCount(Consumer)
  \/ ResetNotify(Consumer)
  \/ \E t \in Threads : SpuriousWakeup(t)

BarrierSpec == Init /\ [][BarrierNext]_vars

\* Every call that was started runs to completion when it can: the threads
\* are operating-system threads.  Which calls a client starts is free.
FairSpec ==
  /\ Spec
  /\ \A p \in Producers : SF_vars(ProducerStep(p))
  /\ SF_vars(ConsumerStep(Consumer))

\* ------------------------------------------------------ per-file readers
\* A line of an input file is abstracted to what Run looks at: EmptyLine, or
\* the hour field of its timestamp.
GetHourFromTimestamp(line) == IF line = EmptyLine THEN 0 ELSE line

\* Timestamp-sorted files of MaxLines lines.
IsSorted(f) == \A i \in 1..Len(f) : \A j \in i..Len(f) : f[i] <= f[j]
Files == {f \in [1..MaxLines -> Hours] : IsSorted(f)}

\* Readers are interchangeable, so their files are listed in rank order.
RECURSIVE RankUpTo(_, _)
RankUpTo(f, n) ==
  IF n = 0 THEN 0 ELSE RankUpTo(f, n - 1) * (MaxHour + 2) + f[n] + 1
Rank(f) == RankUpTo(f, Len(f))
FileAssignments ==
  {ff \in [Producers -> Files] :
     \A p \in Producers : \A q \in Producers :
        p < q => Rank(ff[p]) <= Rank(ff[q])}

LoopHead_NoStop(r) ==
  IF pos[r] >= Len(file[r])
    THEN [pc |-> "run_done", pos |-> pos[r], line_opt |-> line_opt[r],
          hour |-> hour[r], prev_hour_ |-> prev_hour_[r]]
    ELSE LET i == pos[r] + 1
             h == GetHourFromTimestamp(file[r][i])
             ph == IF prev_hour_[r] = 0 THEN h ELSE prev_hour_[r]
         IN IF file[r][i] = EmptyLine
              THEN [pc |-> "run_loop", pos |-> i, line_opt |-> i,
                    hour |-> hour[r], prev_hour_ |-> prev_hour_[r]]
              ELSE [pc |-> IF h # ph THEN "run_producer_done" ELSE "run_enqueue",
                    pos |-> i, line_opt |-> i, hour |-> h, prev_hour_ |-> ph]

\* One evaluation of the loop head by reader r, as the values of its locals
\* and the label it reaches:
\*   while (!stop_flag_) { ReadLineView(true); break at end of file; skip an
\*   empty line; extract the hour; initialise prev_hour_ while it is 0;
\*   branch on an hour change }
\* The loop head touches only the reader's own state (and reads its stop
\* flag once), so after an Enqueue it is taken in the same step as the
\* notify_one that precedes it.
LoopHead(r) ==
  IF stop_flag_[r] \/ pos[r] >= Len(file[r])
    THEN [pc |-> "run_done", pos |-> pos[r], line_opt |-> line_opt[r],
          hour |-> hour[r], prev_hour_ |-> prev_hour_[r]]
    ELSE LET i == pos[r] + 1
             h == GetHourFromTimestamp(file[r][i])
             ph == IF prev_hour_[r] = 0 THEN h ELSE prev_hour_[r]
         IN IF file[r][i] = EmptyLine
              THEN [pc |-> "run_loop", pos |-> i, line_opt |-> i,
                    hour |-> hour[r], prev_hour_ |-> prev_hour_[r]]
              ELSE [pc |-> IF h # ph THEN "run_producer_done" ELSE "run_enqueue",
                    pos |-> i, line_opt |-> i, hour |-> h, prev_hour_ |-> ph]

SetLocals(r, n) ==
  /\ pos' = [pos EXCEPT ![r] = n.pos]
  /\ line_opt' = [line_opt EXCEPT ![r] = n.line_opt]
  /\ hour' = [hour EXCEPT ![r] = n.hour]
  /\ prev_hour_' = [prev_hour_ EXCEPT ![r] = n.prev_hour_]
  /\ UNCHANGED <<file, stop_flag_, mvars>>

\* Entry of Run and the iteration after a skipped line.
RunLoop(r) ==
  /\ pc[r] = "run_loop"
  /\ pc' = [pc EXCEPT ![r] = LoopHead(r).pc]
  /\ SetLocals(r, LoopHead(r))
  /\ UNCHANGED <<queue_, cache_, mutex_, cv_, done_file_count_>>
  /\ UNCHANGED hvars

\* queue_.ProducerDone(), the increment
RunProducerDone(r) ==
  /\ pc[r] = "run_producer_done"
  /\ ProducerDoneIncrement(r, "run_pd_notify")
  /\ barrier' = [barrier EXCEPT ![r] = "done"]
  /\ UNCHANGED <<nextSeq, enqLog, deqLog, tryObs, enqEpochs, epoch>>
  /\ UNCHANGED rvars

\* queue_.ProducerDone(), the notify_all; then prev_hour_ = hour
RunProducerDoneNotify(r) ==
  /\ pc[r] = "run_pd_notify"
  /\ NotifyAll(r, "run_wait_lock")
  /\ prev_hour_' = [prev_hour_ EXCEPT ![r] = hour[r]]
  /\ UNCHANGED <<queue_, cache_, mutex_, done_file_count_>>
  /\ UNCHANGED <<file, pos, line_opt, hour, stop_flag_, mvars>>
  /\ UNCHANGED hvars

\* queue_.WaitUntilDoneFileReset()
RunWait(r) ==
  /\ pc[r] = "run_wait_lock"
  /\ WaitLocked(r, "run_enqueue", "run_wait_enter")
  /\ UNCHANGED rvars
  /\ UNCHANGED hvars

RunWaitBlock(r) ==
  /\ pc[r] = "run_wait_enter"
  /\ CvBlock(r, "run_wait_blocked")
  /\ UNCHANGED <<queue_, cache_, done_file_count_>>
  /\ UNCHANGED rvars
  /\ UNCHANGED hvars

\* queue_.Enqueue({symbol_, line_opt.value(), hour})
RunEnqueue(r) ==
  /\ pc[r] = "run_enqueue"
  /\ EnqueueLocked(r, MktDataMessage(r, line_opt[r], hour[r]), "run_enq_notify")
  /\ enqEpochs' = Append(enqEpochs, epoch)
  /\ barrier' = [barrier EXCEPT ![r] = "none"]
  /\ UNCHANGED <<nextSeq, deqLog, tryObs, doneCalls, epoch>>
  /\ UNCHANGED rvars

\* the notify_one of Enqueue, then the next loop head
RunEnqueueNotify(r) ==
  /\ pc[r] = "run_enq_notify"
  /\ NotifyOne(r, LoopHead(r).pc)
  /\ SetLocals(r, LoopHead(r))
  /\ UNCHANGED <<queue_, cache_, mutex_, done_file_count_>>
  /\ UNCHANGED hvars

\* Stop(), called from outside the reader thread
Stop(r) ==
  /\ ~stop_flag_[r]
  /\ stop_flag_' = [stop_flag_ EXCEPT ![r] = TRUE]
  /\ UNCHANGED <<queue_, cache_, mutex_, cv_, done_file_count_, pc>>
  /\ UNCHANGED <<file, pos, line_opt, hour, prev_hour_, mvars>>
  /\ UNCHANGED hvars

\* The consumer of the readers' queue: it drains with TryDequeue and resets
\* the epoch only when IsDone() holds and Empty() is true.
Drain(c) ==
  /\ pc[c] = "idle"
  /\ \E res \in Results : TryDequeueReturns(res)
  /\ UNCHANGED <<pc, nextSeq, enqLog, tryObs, doneCalls, barrier, enqEpochs, epoch>>
  /\ UNCHANGED rvars

NotifyEpochProcessed(c) ==
  /\ pc[c] = "idle"
  /\ IsDone
  /\ mutex_ = Free
  /\ Empty
  /\ ResetStore(c, "reset_notify")
  /\ barrier' = [p \in Producers |->
                    IF barrier[p] = "done" THEN "reset" ELSE barrier[p]]
  /\ epoch' = epoch + 1
  /\ UNCHANGED <<nextSeq, enqLog, deqLog, tryObs, enqEpochs>>
  /\ UNCHANGED rvars

InitReaders ==
  /\ InitQueue
  /\ NoCursor
  /\ pc = [t \in Threads |-> IF t = Consumer THEN "idle" ELSE "run_loop"]
  /\ file \in FileAssignments
  /\ pos = [p \in Producers |-> 0]
  /\ line_opt = [p \in Producers |-> 0]
  /\ hour = [p \in Producers |-> 0]
  /\ prev_hour_ = [p \in Producers |-> 0]
  /\ stop_flag_ = [p \in Producers |-> FALSE]

ReaderStep(r) ==
  \/ RunLoop(r)
  \/ RunProducerDone(r)
  \/ RunProducerDoneNotify(r)
  \/ RunWait(r)
  \/ RunWaitBlock(r)
  \/ RunEnqueue(r)
  \/ RunEnqueueNotify(r)

NextReaders ==
  \/ \E r \in Producers : RunLoop(r)
  \/ \E r \in Producers : RunProducerDone(r)
  \/ \E r \in Producers : RunProducerDoneNotify(r)
  \/ \E r \in Producers : RunWait(r)
  \/ \E r \in Producers : RunWaitBlock(r)
  \/ \E r \in Producers : RunEnqueue(r)
  \/ \E r \in Producers : RunEnqueueNotify(r)
  \/ Drain(Consumer)
  \/ NotifyEpochProcessed(Consumer)
  \/ ResetNotify(Consumer)
  \/ \E t \in Threads : SpuriousWakeup(t)

ReaderSpec == InitReaders /\ [][NextReaders]_vars

\* The consumer of the readers' queue keeps draining and resets the epoch
\* whenever it can; every reader thread keeps running.
ConsumerRun(c) ==
  \/ Drain(c)
  \/ NotifyEpochProcessed(c)
  \/ ResetNotify(c)

FairReaderSpec ==
  /\ ReaderSpec
  /\ \A r \in Producers : SF_vars(ReaderStep(r))
  /\ SF_vars(ConsumerRun(Consumer))

\* Every reader has a file with the same sequence of time buckets, long
\* enough for two bucket changes.
SameBuckets == {f \in [1..MaxBuckets -> 1..MaxBuckets] : IsSorted(f)}

InitEpochs ==
  /\ InitQueue
  /\ NoCursor
  /\ pc = [t \in Threads |-> IF t = Consumer THEN "idle" ELSE "run_loop"]
  /\ \E f \in SameBuckets : file = [p \in Producers |-> f]
  /\ pos = [p \in Producers |-> 0]
  /\ line_opt = [p \in Producers |-> 0]
  /\ hour = [p \in Producers |-> 0]
  /\ prev_hour_ = [p \in Producers |-> 0]
  /\ stop_flag_ = [p \in Producers |-> FALSE]

EpochSpec == InitEpochs /\ [][NextReaders]_vars

\* The consumer keeps draining and resets whenever it can; every reader
\* thread keeps running.
FairEpochSpec ==
  /\ EpochSpec
  /\ \A r \in Producers : SF_vars(ReaderStep(r))
  /\ SF_vars(ConsumerRun(Consumer))

\* The readers with Stop() callable from outside at any time.
NextStop ==
  \/ \E r \in Producers : RunLoop(r)
  \/ \E r \in Producers : RunProducerDone(r)
  \/ \E r \in Producers : RunProducerDoneNotify(r)
  \/ \E r \in Producers : RunWait(r)
  \/ \E r \in Producers : RunWaitBlock(r)
  \/ \E r \in Producers : RunEnqueue(r)
  \/ \E r \in Producers : RunEnqueueNotify(r)
  \/ \E r \in Producers : Stop(r)
  \/ Drain(Consumer)
  \/ NotifyEpochProcessed(Consumer)
  \/ ResetNotify(Consumer)
  \/ \E t \in Threads : SpuriousWakeup(t)

FairStopSpec ==
  /\ InitReaders
  /\ [][NextStop]_vars
  /\ \A r \in Producers : SF_vars(ReaderStep(r))
  /\ SF_vars(ConsumerRun(Consumer))

\* ------------------------------------------------------- the MMF cursor
\* A byte is a number: 0 stands for '\n', 1..MaxByte for the other bytes.
NL == 0
Bytes == 0..MaxByte
Disks == UNION {[1..n -> Bytes] : n \in 0..MaxBytes}

\* mapped_ptr_ is nullptr, MAP_FAILED, or a live mapping; every mmap makes a
\* new mapping, numbered 1, 2, ... in the order they are made.
nullptr == 0
MAP_FAILED == -1

\* fd_ is -1 or the descriptor that open returned.
Fd == 3

Min(a, b) == IF a <= b THEN a ELSE b

\* MMF::MMF(filename, mode): the whole file is mapped; an empty file is not
\* mapped at all.
OpenFull(d) ==
  [mapped_ptr_ |-> IF Len(d) = 0 THEN nullptr ELSE 1,
   file_size_ |-> Len(d),
   mapped_size_ |-> Len(d),
   current_position_ |-> 0,
   offset_ |-> 0,
   is_valid_ |-> TRUE,
   last_error_ |-> "None",
   fd_ |-> Fd,
   mode_ |-> "ReadOnly"]

OpenWindow_Unaligned(d, offset, size) ==
  IF offset >= Len(d)
    THEN {[mapped_ptr_ |-> MAP_FAILED, file_size_ |-> Len(d),
           mapped_size_ |-> 0, current_position_ |-> 0, offset_ |-> o,
           is_valid_ |-> FALSE, last_error_ |-> "InvalidOffset",
           fd_ |-> -1, mode_ |-> "ReadOnly"] :
            o \in 0..MaxBytes}
    ELSE LET page_aligned_offset == (offset \div PageSize) * PageSize
             max_available_from_offset == Len(d) - offset
             effective_size == Min(size, max_available_from_offset)
             mapped_size == (offset - page_aligned_offset) + effective_size
         IN IF mapped_size > 0
              THEN {[mapped_ptr_ |-> 1, file_size_ |-> Len(d),
                     mapped_size_ |-> mapped_size,
                     current_position_ |-> 0,
                     offset_ |-> page_aligned_offset,
                     is_valid_ |-> TRUE, last_error_ |-> "None",
                     fd_ |-> Fd, mode_ |-> "ReadOnly"]}
              ELSE {[mapped_ptr_ |-> MAP_FAILED, file_size_ |-> Len(d),
                     mapped_size_ |-> 0, current_position_ |-> 0,
                     offset_ |-> o,
                     is_valid_ |-> TRUE, last_error_ |-> "None",
                     fd_ |-> Fd, mode_ |-> "ReadOnly"] :
                      o \in 0..MaxBytes}

\* MMF::MMF(filename, offset, size, mode): a window of the file.  The
\* constructor does not initialise offset_; it is assigned only when
\* something is mapped, so with nothing mapped it may hold any value.
OpenWindow(d, offset, size) ==
  IF offset >= Len(d)
    THEN {[mapped_ptr_ |-> MAP_FAILED, file_size_ |-> Len(d),
           mapped_size_ |-> 0, current_position_ |-> 0, offset_ |-> o,
           is_valid_ |-> FALSE, last_error_ |-> "InvalidOffset",
           fd_ |-> -1, mode_ |-> "ReadOnly"] :
            o \in 0..MaxBytes}
    ELSE LET page_aligned_offset == (offset \div PageSize) * PageSize
             max_available_from_offset == Len(d) - offset
             effective_size == Min(size, max_available_from_offset)
             mapped_size == (offset - page_aligned_offset) + effective_size
         IN IF mapped_size > 0
              THEN {[mapped_ptr_ |-> 1, file_size_ |-> Len(d),
                     mapped_size_ |-> mapped_size,
                     current_position_ |-> offset - page_aligned_offset,
                     offset_ |-> page_aligned_offset,
                     is_valid_ |-> TRUE, last_error_ |-> "None",
                     fd_ |-> Fd, mode_ |-> "ReadOnly"]}
              ELSE {[mapped_ptr_ |-> MAP_FAILED, file_size_ |-> Len(d),
                     mapped_size_ |-> 0, current_position_ |-> 0,
                     offset_ |-> o,
                     is_valid_ |-> TRUE, last_error_ |-> "None",
                     fd_ |-> Fd, mode_ |-> "ReadOnly"] :
                      o \in 0..MaxBytes}

\* data[i] of the current mapping: the mapping starts at file offset offset_.
Data(m, d, i) == d[m.offset_ + i + 1]

GetAlignedOffsetAndSize_NoDelta(offset, size) ==
  <<(offset \div PageSize) * PageSize, size>>

\* MMF::GetAlignedOffsetAndSize
GetAlignedOffsetAndSize(offset, size) ==
  LET page_aligned_offset == (offset \div PageSize) * PageSize
      offset_delta == offset - page_aligned_offset
  IN <<page_aligned_offset, offset_delta + size>>

Remap_FromStart(m) ==
  LET next_offset == m.offset_ + m.mapped_size_
      remaining == m.file_size_ - next_offset
      map_size == Min(m.mapped_size_, remaining)
      aligned == GetAlignedOffsetAndSize(next_offset, map_size)
  IN [m EXCEPT !.mapped_ptr_ = IF @ < 1 THEN 1 ELSE @ + 1,
               !.offset_ = aligned[1],
               !.mapped_size_ = aligned[2],
               !.current_position_ = 0]

\* GetNextLineBounds, the remap branch: munmap the current window and map
\* the next one.  (mmap is taken to succeed.)
Remap(m) ==
  LET next_offset == m.offset_ + m.mapped_size_
      remaining == m.file_size_ - next_offset
      map_size == Min(m.mapped_size_, remaining)
      aligned == GetAlignedOffsetAndSize(next_offset, map_size)
  IN [m EXCEPT !.mapped_ptr_ = IF @ < 1 THEN 1 ELSE @ + 1,
               !.offset_ = aligned[1],
               !.mapped_size_ = aligned[2],
               !.current_position_ = next_offset - aligned[1]]

\* while (line_end < mapped_size_ && data[line_end] != '\n') line_end++
RECURSIVE LineEnd(_, _, _)
LineEnd(m, d, line_end) ==
  IF line_end < m.mapped_size_ /\ Data(m, d, line_end) # NL
    THEN LineEnd(m, d, line_end + 1)
    ELSE line_end

\* MMF::GetNextLineBounds: the cursor after the call and the bounds returned.
GetNextLineBounds(m, d, p_extend_mapping) ==
  IF ~m.is_valid_ \/ m.mapped_ptr_ = nullptr
    THEN [mmf |-> [m EXCEPT !.last_error_ = "NotMapped"], bounds |-> nullopt]
  ELSE IF m.current_position_ >= m.mapped_size_
          /\ ~(p_extend_mapping /\ m.file_size_ > m.offset_ + m.mapped_size_)
    THEN [mmf |-> [m EXCEPT !.last_error_ = "EndOfFile"], bounds |-> nullopt]
  ELSE IF m.current_position_ >= m.mapped_size_ /\ Remap(m).mapped_size_ = 0
    THEN \* mmap of length 0 fails
         [mmf |-> [m EXCEPT !.mapped_ptr_ = nullptr, !.last_error_ = "MapFailed",
                            !.is_valid_ = FALSE],
          bounds |-> nullopt]
  ELSE LET n == IF m.current_position_ >= m.mapped_size_ THEN Remap(m) ELSE m
           line_start == n.current_position_
       IN IF line_start < n.mapped_size_ /\ Data(n, d, line_start) = NL
            THEN [mmf |-> n, bounds |-> Some(<<line_start, line_start>>)]
            ELSE [mmf |-> n,
                  bounds |-> Some(<<line_start, LineEnd(n, d, line_start)>>)]

PositionAfter_KeepTerminator(m, d, line_end) == line_end

\* The position after a non-empty line [line_start, line_end) was taken.
PositionAfter(m, d, line_end) ==
  IF line_end < m.mapped_size_ /\ Data(m, d, line_end) = NL
    THEN line_end + 1
    ELSE line_end

\* MMF::ReadLine: the cursor after the call and the std::string returned.
ReadLine(m, d, p_extend_mapping) ==
  LET b == GetNextLineBounds(m, d, p_extend_mapping)
  IN IF b.bounds = nullopt
       THEN [mmf |-> b.mmf, line |-> nullopt]
     ELSE LET line_start == b.bounds[1][1]
              line_end == b.bounds[1][2]
          IN IF line_start > line_end
               THEN [mmf |-> [b.mmf EXCEPT !.last_error_ = "EndOfFile"],
                     line |-> nullopt]
             ELSE IF line_start = line_end
               THEN [mmf |-> [b.mmf EXCEPT !.current_position_ = line_end + 1,
                                           !.last_error_ = "None"],
                     line |-> Some(<<>>)]
             ELSE [mmf |-> [b.mmf EXCEPT
                              !.current_position_ = PositionAfter(b.mmf, d, line_end),
                              !.last_error_ = "None"],
                   line |-> Some([i \in 1..(line_end - line_start) |->
                                    Data(b.mmf, d, line_start + i - 1)])]

\* A std::string_view into a mapping: the mapping it points into, the file
\* offset its first byte is mapped from, and its length.  The default
\* constructed view points nowhere.
View(p_ptr, p_off, p_len) == [ptr |-> p_ptr, off |-> p_off, len |-> p_len]
EmptyView == View(nullptr, 0, 0)

\* The bytes the view denoted when it was made.
ViewBytes(v, d) == SubSeq(d, v.off + 1, v.off + v.len)

\* MMF::ReadLineView: the cursor after the call and the view returned.
ReadLineView(m, d, p_extend_mapping) ==
  LET b == GetNextLineBounds(m, d, p_extend_mapping)
  IN IF b.bounds = nullopt
       THEN [mmf |-> b.mmf, line |-> nullopt]
     ELSE LET line_start == b.bounds[1][1]
              line_end == b.bounds[1][2]
          IN IF line_start > line_end
               THEN [mmf |-> [b.mmf EXCEPT !.last_error_ = "EndOfFile"],
                     line |-> nullopt]
             ELSE IF line_start = line_end
               THEN [mmf |-> [b.mmf EXCEPT !.current_position_ = line_end + 1,
                                           !.last_error_ = "None"],
                     line |-> Some(EmptyView)]
             ELSE [mmf |-> [b.mmf EXCEPT
                              !.current_position_ = PositionAfter(b.mmf, d, line_end),
                              !.last_error_ = "None"],
                   line |-> Some(View(b.mmf.mapped_ptr_,
                                      b.mmf.offset_ + line_start,
                                      line_end - line_start))]

\* One entry of the history of calls.
ReadEntry(m, p_extend_mapping, result) ==
  [op |-> "ReadLine", before |-> m, p_extend_mapping |-> p_extend_mapping,
   line |-> result]

\* A test reads line after line, with the same p_extend_mapping in every
\* call, until a call returns nullopt.
MayRead(e) ==
  /\ mmf_ # <<>>
  /\ reads # <<>> =>
       /\ reads[Len(reads)].line # nullopt
       /\ reads[1].p_extend_mapping = e

MmfReadLine ==
  \E e \in BOOLEAN :
    /\ MayRead(e)
    /\ mmf_' = ReadLine(mmf_, disk, e).mmf
    /\ reads' = Append(reads, ReadEntry(mmf_, e, ReadLine(mmf_, disk, e).line))
    /\ UNCHANGED <<disk, chunk_size_>>
    /\ UNCHANGED <<file, pos, line_opt, hour, prev_hour_, stop_flag_>>
    /\ UNCHANGED <<qvars, pc, hvars>>

MmfReadLineView ==
  \E e \in BOOLEAN :
    LET r == ReadLineView(mmf_, disk, e)
    IN /\ MayRead(e)
       /\ mmf_' = r.mmf
       /\ reads' = Append(reads,
            ReadEntry(mmf_, e, IF r.line = nullopt THEN nullopt
                               ELSE Some(ViewBytes(r.line[1], disk))))
       /\ UNCHANGED <<disk, chunk_size_>>
       /\ UNCHANGED <<file, pos, line_opt, hour, prev_hour_, stop_flag_>>
       /\ UNCHANGED <<qvars, pc, hvars>>

\* A file on disk and a cursor on it: the whole file mapped, or a window of
\* chunk_size_ bytes opened at offset 0.
InitCursor ==
  /\ InitQueue
  /\ pc = [t \in Threads |-> "idle"]
  /\ file = [p \in Producers |-> <<>>]
  /\ pos = [p \in Producers |-> 0]
  /\ line_opt = [p \in Producers |-> 0]
  /\ hour = [p \in Producers |-> 0]
  /\ prev_hour_ = [p \in Producers |-> 0]
  /\ stop_flag_ = [p \in Producers |-> FALSE]
  /\ disk \in Disks
  /\ reads = <<>>
  /\ \/ /\ chunk_size_ = Len(disk)
        /\ mmf_ = OpenFull(disk)
     \/ /\ chunk_size_ \in 1..MaxWindow
        /\ mmf_ \in OpenWindow(disk, 0, chunk_size_)

NextCursor ==
  \/ MmfReadLine
  \/ MmfReadLineView

CursorSpec == InitCursor /\ [][NextCursor]_vars

\* ------------------------------------- the reader on a byte-level cursor
\* MktData::GetHourFromTimestamp on the bytes of a line.  The source returns
\* 0 for a line shorter than 19 bytes and else the number in bytes 11..12;
\* scaled down, a timestamp has TimestampSize bytes and the hour is the byte
\* at HourPos.
TimestampSize == 2
HourPos == 2
GetHourFromLine(line) ==
  IF Len(line) < TimestampSize THEN 0 ELSE line[HourPos]

\* The reader whose cursor is modelled byte by byte, and the other producer
\* of the queue, of which only its ProducerDone calls are modelled.
ChunkReader == 1
OtherProducer == 2

\* One iteration of Run's loop up to the branch on the hour:
\*   while (!stop_flag_) { line_opt = mmf_.ReadLineView(true); break on
\*   nullopt; skip an empty line; skip a line longer than chunk_size_;
\*   extract the hour; initialise prev_hour_ while it is 0 }
ChunkRunLoop(r) ==
  /\ pc[r] = "run_loop"
  /\ IF stop_flag_[r]
       THEN /\ pc' = [pc EXCEPT ![r] = "run_done"]
            /\ UNCHANGED <<mmf_, line_opt, hour, prev_hour_>>
       ELSE LET res == ReadLineView(mmf_, disk, TRUE)
            IN /\ mmf_' = res.mmf
               /\ line_opt' = [line_opt EXCEPT ![r] = res.line]
               /\ IF res.line = nullopt
                    THEN /\ pc' = [pc EXCEPT ![r] = "run_done"]
                         /\ UNCHANGED <<hour, prev_hour_>>
                  ELSE IF res.line[1].len = 0 \/ res.line[1].len > chunk_size_
                    THEN /\ pc' = pc
                         /\ UNCHANGED <<hour, prev_hour_>>
                  ELSE LET h == GetHourFromLine(ViewBytes(res.line[1], disk))
                           ph == IF prev_hour_[r] = 0 THEN h ELSE prev_hour_[r]
                       IN /\ hour' = [hour EXCEPT ![r] = h]
                          /\ prev_hour_' = [prev_hour_ EXCEPT ![r] = ph]
                          /\ pc' = [pc EXCEPT ![r] =
                                      IF h # ph THEN "run_producer_done"
                                      ELSE "run_enqueue"]
  /\ UNCHANGED <<file, pos, stop_flag_, disk, chunk_size_, reads>>
  /\ UNCHANGED qvars
  /\ UNCHANGED hvars

\* queue_.Enqueue({symbol_, line_opt.value(), hour}): the locked block
ChunkRunEnqueue(r) ==
  /\ pc[r] = "run_enqueue"
  /\ EnqueueLocked(r, MktDataMessage(r, line_opt[r][1], hour[r]), "run_enq_notify")
  /\ enqEpochs' = Append(enqEpochs, epoch)
  /\ barrier' = [barrier EXCEPT ![r] = "none"]
  /\ UNCHANGED <<nextSeq, deqLog, tryObs, doneCalls, epoch>>
  /\ UNCHANGED rvars

\* the notify_one of Enqueue; the loop goes round
ChunkRunEnqueueNotify(r) ==
  /\ pc[r] = "run_enq_notify"
  /\ NotifyOne(r, "run_loop")
  /\ UNCHANGED <<queue_, cache_, mutex_, done_file_count_>>
  /\ UNCHANGED rvars
  /\ UNCHANGED hvars

\* The other reader comes to the hour change too: it calls ProducerDone once
\* the reader under study has called it for the current epoch.
OtherProducerDone(p) ==
  /\ barrier[ChunkReader] = "done"
  /\ ProducerDone(p)

\* ChunkedFileReader(filename, queue, chunk_size): the cursor is opened as a
\* window of chunk_size_ bytes at offset 0; Run returns at once when the
\* cursor is not valid.
InitChunk ==
  /\ InitQueue
  /\ disk \in Disks
  /\ chunk_size_ \in 1..MaxWindow
  /\ mmf_ \in OpenWindow(disk, 0, chunk_size_)
  /\ reads = <<>>
  /\ pc = [t \in Threads |->
             IF t = ChunkReader
               THEN IF mmf_.is_valid_ THEN "run_loop" ELSE "run_done"
               ELSE "idle"]
  /\ file = [p \in Producers |-> <<>>]
  /\ pos = [p \in Producers |-> 0]
  /\ line_opt = [p \in Producers |-> nullopt]
  /\ hour = [p \in Producers |-> 0]
  /\ prev_hour_ = [p \in Producers |-> 0]
  /\ stop_flag_ = [p \in Producers |-> FALSE]

NextChunk ==
  \/ ChunkRunLoop(ChunkReader)
  \/ RunProducerDone(ChunkReader)
  \/ RunProducerDoneNotify(ChunkReader)
  \/ RunWait(ChunkReader)
  \/ RunWaitBlock(ChunkReader)
  \/ ChunkRunEnqueue(ChunkReader)
  \/ ChunkRunEnqueueNotify(ChunkReader)
  \/ OtherProducerDone(OtherProducer)
  \/ ProducerDoneNotify(OtherProducer)
  \/ Drain(Consumer)
  \/ NotifyEpochProcessed(Consumer)
  \/ ResetNotify(Consumer)
  \/ \E t \in Threads : SpuriousWakeup(t)

ChunkSpec == InitChunk /\ [][NextChunk]_vars

\* ------------------------------------------------- the MMF object's calls
\* A byte that ftruncate adds when it makes the file longer ('\0').
NUL == MaxByte + 1

\* The system calls of one constructor or WriteLine call: all succeed
\* ("none") or the calls of one kind fail.
CtorFails == {"none", "open", "fstat", "ftruncate", "mmap"}
WriteFails == {"none", "ftruncate", "mmap", "msync"}
OpenModes == {"ReadOnly", "ReadWrite"}

\* MMF::Cleanup: munmap a live mapping, close an open descriptor.
Cleanup(m) ==
  [m EXCEPT !.mapped_ptr_ = IF @ # MAP_FAILED /\ @ # nullptr THEN nullptr ELSE @,
            !.fd_ = -1]

CtorFailed_KeepFd(p_error, p_file_size, p_mapped_size, p_offset, p_mode) ==
  [mapped_ptr_ |-> MAP_FAILED, file_size_ |-> p_file_size,
   mapped_size_ |-> p_mapped_size, current_position_ |-> 0,
   offset_ |-> p_offset, is_valid_ |-> FALSE, last_error_ |-> p_error,
   fd_ |-> IF p_error = "FileOpenFailed" THEN -1 ELSE Fd, mode_ |-> p_mode]

\* The object a constructor leaves behind when it returns early: the member
\* initialisers, the sizes assigned so far, the error, and Cleanup.
CtorFailed(p_error, p_file_size, p_mapped_size, p_offset, p_mode) ==
  [mapped_ptr_ |-> MAP_FAILED, file_size_ |-> p_file_size,
   mapped_size_ |-> p_mapped_size, current_position_ |-> 0,
   offset_ |-> p_offset, is_valid_ |-> FALSE, last_error_ |-> p_error,
   fd_ |-> -1, mode_ |-> p_mode]

\* MMF::MMF(filename, mode) on a path that exists or not, with content d.
\* open fails on a missing file in ReadOnly mode (no O_CREAT).
ConstructFull(exists, d, mode, fail) ==
  IF fail = "open" \/ (~exists /\ mode = "ReadOnly")
    THEN CtorFailed("FileOpenFailed", 0, 0, 0, mode)
  ELSE IF fail = "fstat"
    THEN CtorFailed("FileStatFailed", 0, 0, 0, mode)
  ELSE IF mode # "ReadOnly" /\ Len(d) = 0 /\ fail = "ftruncate"
    THEN CtorFailed("FileOpenFailed", Len(d), Len(d), 0, mode)
  ELSE IF Len(d) # 0 /\ fail = "mmap"
    THEN CtorFailed("MapFailed", Len(d), Len(d), 0, mode)
  ELSE [OpenFull(d) EXCEPT !.mode_ = mode]

\* MMF::MMF(filename, offset, size, mode) in ReadOnly mode.  offset_ has no
\* member initialiser: it holds any value unless something is mapped.
ConstructWindow(exists, d, offset, size, fail) ==
  IF fail = "open" \/ ~exists
    THEN {CtorFailed("FileOpenFailed", 0, 0, o, "ReadOnly") : o \in 0..MaxBytes}
  ELSE IF fail = "fstat"
    THEN {CtorFailed("FileStatFailed", 0, 0, o, "ReadOnly") : o \in 0..MaxBytes}
  ELSE IF offset < Len(d) /\ fail = "mmap"
          /\ (offset - (offset \div PageSize) * PageSize) + Min(size, Len(d) - offset) > 0
    THEN {CtorFailed("MapFailed", Len(d),
                     (offset - (offset \div PageSize) * PageSize)
                       + Min(size, Len(d) - offset),
                     o, "ReadOnly") : o \in 0..MaxBytes}
  ELSE OpenWindow(d, offset, size)

\* The accessors.
IsValid(m) == m.is_valid_
GetLastError(m) == m.last_error_
GetCurrentPosition(m) == IF m.is_valid_ THEN Some(m.current_position_) ELSE nullopt
GetMappedSize(m) == IF m.is_valid_ THEN Some(m.mapped_size_) ELSE nullopt
GetFileSize(m) == IF m.is_valid_ THEN Some(m.file_size_) ELSE nullopt
IsEOF(m) == ~m.is_valid_ \/ m.current_position_ >= m.mapped_size_
GetData(m) ==
  IF m.is_valid_ /\ m.mapped_ptr_ # nullptr THEN Some(m.mapped_ptr_) ELSE nullopt

Reset_Remap(m) ==
  IF ~m.is_valid_
    THEN [mmf |-> [m EXCEPT !.last_error_ = "NotMapped"], result |-> "NotMapped"]
    ELSE [mmf |-> [m EXCEPT !.current_position_ = 0, !.last_error_ = "None",
                            !.offset_ = 0,
                            !.mapped_ptr_ = IF @ < 1 THEN 1 ELSE @ + 1],
          result |-> "None"]

\* MMF::Reset: the object after the call and the error returned.
Reset(m) ==
  IF ~m.is_valid_
    THEN [mmf |-> [m EXCEPT !.last_error_ = "NotMapped"], result |-> "NotMapped"]
    ELSE [mmf |-> [m EXCEPT !.current_position_ = 0, !.last_error_ = "None"],
          result |-> "None"]

SetPosition_Within(m, position) ==
  IF ~m.is_valid_
    THEN [mmf |-> [m EXCEPT !.last_error_ = "NotMapped"], result |-> "NotMapped"]
  ELSE IF position >= m.mapped_size_
    THEN [mmf |-> [m EXCEPT !.last_error_ = "InvalidPosition"],
          result |-> "InvalidPosition"]
  ELSE [mmf |-> [m EXCEPT !.current_position_ = position, !.last_error_ = "None"],
        result |-> "None"]

\* MMF::SetPosition: the object after the call and the error returned.
SetPosition(m, position) ==
  IF ~m.is_valid_
    THEN [mmf |-> [m EXCEPT !.last_error_ = "NotMapped"], result |-> "NotMapped"]
  ELSE IF position > m.mapped_size_
    THEN [mmf |-> [m EXCEPT !.last_error_ = "InvalidPosition"],
          result |-> "InvalidPosition"]
  ELSE [mmf |-> [m EXCEPT !.current_position_ = position, !.last_error_ = "None"],
        result |-> "None"]

\* ftruncate(fd_, n): the file cut to n bytes or extended with NUL bytes.
Truncate(d, n) ==
  IF n <= Len(d) THEN SubSeq(d, 1, n)
  ELSE d \o [i \in 1..(n - Len(d)) |-> NUL]

GrowTo_Once(new_size, needed) == new_size

\* while (current_position_ + write_size + 1 > new_size) new_size *= 2
RECURSIVE GrowTo(_, _)
GrowTo(new_size, needed) ==
  IF needed > new_size THEN GrowTo(new_size * 2, needed) ELSE new_size

\* A fresh mapping: MAP_FAILED when mmap fails.
Mmap(p_ptr, fail) ==
  IF fail = "mmap" THEN MAP_FAILED ELSE IF p_ptr < 1 THEN 1 ELSE p_ptr + 1

\* WriteLine from "if (mapped_ptr_ == nullptr)" on, for an object m whose
\* mapping (if any) is a shared mapping of the file from offset 0.
WriteBody(m, d, line, fail) ==
  LET write_size == Len(line)
      \* the first mapping of an empty file
      first == m.mapped_ptr_ = nullptr
      d1 == IF first THEN Truncate(d, write_size + 1) ELSE d
      m1 == IF first
              THEN [m EXCEPT !.mapped_size_ = write_size + 1,
                             !.mapped_ptr_ = Mmap(m.mapped_ptr_, fail)]
              ELSE m
      \* growth
      needed == m1.current_position_ + write_size + 1
      grow == needed > m1.mapped_size_
      new_size == GrowTo(IF m1.mapped_size_ * 2 = 0 THEN write_size + 1
                         ELSE m1.mapped_size_ * 2, needed)
      d2 == IF grow THEN Truncate(d1, new_size) ELSE d1
      m2 == IF grow
              THEN [m1 EXCEPT !.mapped_size_ = new_size,
                              !.mapped_ptr_ = Mmap(m1.mapped_ptr_, fail)]
              ELSE m1
      \* memcpy of the line, the terminator, the position
      p == m2.current_position_
      d3 == [i \in 1..Len(d2) |->
               IF i > p /\ i <= p + write_size THEN line[i - p]
               ELSE IF i = p + write_size + 1 THEN NL
               ELSE d2[i]]
      m3 == [m2 EXCEPT !.current_position_ = p + write_size + 1]
  IN IF first /\ fail = "ftruncate"
       THEN [mmf |-> m, disk |-> d, result |-> "WriteError"]
     ELSE IF first /\ fail = "mmap"
       THEN [mmf |-> [m1 EXCEPT !.is_valid_ = FALSE], disk |-> d1,
             result |-> "MapFailed"]
     ELSE IF grow /\ fail = "ftruncate"
       THEN [mmf |-> m1, disk |-> d1, result |-> "WriteError"]
     ELSE IF grow /\ fail = "mmap"
       THEN [mmf |-> [m2 EXCEPT !.is_valid_ = FALSE], disk |-> d2,
             result |-> "MapFailed"]
     ELSE [mmf |-> m3, disk |-> d3,
           result |-> IF fail = "msync" THEN "WriteError" ELSE "None"]

\* MMF::WriteLine: the object and the file after the call, and the error
\* returned.
WriteLine(m, d, line, fail) ==
  IF ~m.is_valid_ \/ m.mapped_ptr_ = MAP_FAILED
    THEN [mmf |-> m, disk |-> d, result |-> "NotMapped"]
  ELSE IF m.mode_ = "ReadOnly"
    THEN [mmf |-> m, disk |-> d, result |-> "WriteError"]
  ELSE IF Len(line) <= 0
    THEN [mmf |-> m, disk |-> d, result |-> "WriteError"]
  ELSE WriteBody(m, d, line, fail)

\* The texts a caller writes: no terminator inside, the empty text included.
Texts == UNION {[1..n -> 1..MaxByte] : n \in 0..MaxText}

\* One entry of the history of calls: the call, the object and the file
\* before it, its argument and what it returned.
CallEntry(op, m, d, arg, result) ==
  [op |-> op, before |-> m, disk |-> d, arg |-> arg, result |-> result]

\* The threads and the queue take no part in the calls on an MMF object.
NoThreads ==
  /\ InitQueue
  /\ pc = [t \in Threads |-> "idle"]
  /\ file = [p \in Producers |-> <<>>]
  /\ pos = [p \in Producers |-> 0]
  /\ line_opt = [p \in Producers |-> 0]
  /\ hour = [p \in Producers |-> 0]
  /\ prev_hour_ = [p \in Producers |-> 0]
  /\ stop_flag_ = [p \in Producers |-> FALSE]

IdleThreads ==
  /\ UNCHANGED <<file, pos, line_opt, hour, prev_hour_, stop_flag_>>
  /\ UNCHANGED <<qvars, pc, hvars>>

\* A read-only MMF object is constructed on a path that does not exist, or
\* on a file with any content: the whole file, or a window of it.
\* The history holds the constructor call and the most recent call.
InitApi ==
  /\ NoThreads
  /\ disk \in {d \in Disks : Len(d) <= MaxApiBytes}
  /\ \E exists \in BOOLEAN, fail \in CtorFails :
       /\ ~exists => disk = <<>>
       /\ \/ /\ chunk_size_ = Len(disk)
             /\ mmf_ = ConstructFull(exists, disk, "ReadOnly", fail)
             /\ reads = <<CallEntry("MMF", <<>>, disk,
                            [exists |-> exists, window |-> FALSE, offset |-> 0,
                             size |-> Len(disk), mode |-> "ReadOnly",
                             fail |-> fail],
                            mmf_.last_error_)>>
          \/ \E offset \in 0..MaxApiBytes :
               /\ chunk_size_ \in 0..MaxWindow
               /\ mmf_ \in ConstructWindow(exists, disk, offset, chunk_size_, fail)
               /\ reads = <<CallEntry("MMF", <<>>, disk,
                              [exists |-> exists, window |-> TRUE, offset |-> offset,
                               size |-> chunk_size_, mode |-> "ReadOnly",
                               fail |-> fail],
                              mmf_.last_error_)>>

ApiReadLine ==
  \E e \in BOOLEAN :
    LET r == ReadLine(mmf_, disk, e)
    IN /\ mmf_' = r.mmf
       /\ reads' = <<reads[1], CallEntry("ReadLine", mmf_, disk, e, r.line)>>
       /\ UNCHANGED <<disk, chunk_size_>>
       /\ IdleThreads

ApiReadLineView ==
  \E e \in BOOLEAN :
    LET r == ReadLineView(mmf_, disk, e)
    IN /\ mmf_' = r.mmf
       /\ reads' = <<reads[1],
                     CallEntry("ReadLineView", mmf_, disk, e,
                               IF r.line = nullopt THEN nullopt
                               ELSE Some(ViewBytes(r.line[1], disk)))>>
       /\ UNCHANGED <<disk, chunk_size_>>
       /\ IdleThreads

ApiReset ==
  /\ mmf_' = Reset(mmf_).mmf
  /\ reads' = <<reads[1], CallEntry("Reset", mmf_, disk, <<>>, Reset(mmf_).result)>>
  /\ UNCHANGED <<disk, chunk_size_>>
  /\ IdleThreads

ApiSetPosition ==
  \E position \in 0..(MaxBytes + 1) :
    LET r == SetPosition(mmf_, position)
    IN /\ mmf_' = r.mmf
       /\ reads' = <<reads[1], CallEntry("SetPosition", mmf_, disk, position, r.result)>>
       /\ UNCHANGED <<disk, chunk_size_>>
       /\ IdleThreads

ApiWriteLine ==
  \E line \in Texts, fail \in WriteFails :
    LET r == WriteLine(mmf_, disk, line, fail)
    IN /\ Len(r.disk) <= MaxFile
       /\ mmf_' = r.mmf
       /\ disk' = r.disk
       /\ reads' = <<reads[1], CallEntry("WriteLine", mmf_, disk, line, r.result)>>
       /\ UNCHANGED chunk_size_
       /\ IdleThreads

NextApi ==
  \/ ApiReadLine
  \/ ApiReadLineView
  \/ ApiReset
  \/ ApiSetPosition
  \/ ApiWriteLine

ApiSpec == InitApi /\ [][NextApi]_vars

\* ---------------------------------------------- writing and reading back
\* A test constructs an MMF object on the whole file, writes lines, lets the
\* object go out of scope, opens the file again in ReadWrite mode and reads
\* it line by line until ReadLine returns nullopt.  The history holds every
\* call.
InitWrite ==
  /\ NoThreads
  /\ disk \in {d \in Disks : Len(d) <= MaxOldBytes}
  /\ chunk_size_ = Len(disk)
  /\ \E exists \in BOOLEAN, mode \in OpenModes, fail \in CtorFails :
       /\ ~exists => disk = <<>>
       /\ mmf_ = ConstructFull(exists, disk, mode, fail)
       /\ reads = <<CallEntry("MMF", <<>>, disk,
                      [exists |-> exists, window |-> FALSE, offset |-> 0,
                       size |-> Len(disk), mode |-> mode, fail |-> fail],
                      mmf_.last_error_)>>

\* Only WriteLine calls were made on the object so far.
Writing == \A i \in 2..Len(reads) : reads[i].op = "WriteLine"

WrWriteLine ==
  \E line \in Texts, fail \in WriteFails :
    LET r == WriteLine(mmf_, disk, line, fail)
    IN /\ Writing
       /\ Len(reads) <= MaxWrites
       /\ Len(r.disk) <= MaxFile
       /\ mmf_' = r.mmf
       /\ disk' = r.disk
       /\ reads' = Append(reads, CallEntry("WriteLine", mmf_, disk, line, r.result))
       /\ UNCHANGED chunk_size_
       /\ IdleThreads

\* MMF::~MMF
WrDestroy ==
  /\ Writing
  /\ mmf_' = Cleanup(mmf_)
  /\ reads' = Append(reads, CallEntry("~MMF", mmf_, disk, <<>>, "None"))
  /\ UNCHANGED <<disk, chunk_size_>>
  /\ IdleThreads

\* MMF(filename, OpenMode::ReadWrite) on the file as the writer left it
WrOpenAgain ==
  /\ reads[Len(reads)].op = "~MMF"
  /\ mmf_' = ConstructFull(TRUE, disk, "ReadWrite", "none")
  /\ reads' = Append(reads,
       CallEntry("MMF", <<>>, disk,
                 [exists |-> TRUE, window |-> FALSE, offset |-> 0,
                  size |-> Len(disk), mode |-> "ReadWrite", fail |-> "none"],
                 mmf_'.last_error_))
  /\ UNCHANGED <<disk, chunk_size_>>
  /\ IdleThreads

WrReadLine ==
  LET last == reads[Len(reads)]
      r == ReadLine(mmf_, disk, FALSE)
  IN /\ ~Writing
     /\ \/ last.op = "MMF"
        \/ last.op = "ReadLine" /\ last.result # nullopt
     /\ mmf_' = r.mmf
     /\ reads' = Append(reads, CallEntry("ReadLine", mmf_, disk, FALSE, r.line))
     /\ UNCHANGED <<disk, chunk_size_>>
     /\ IdleThreads

NextWrite ==
  \/ WrWriteLine
  \/ WrDestroy
  \/ WrOpenAgain
  \/ WrReadLine

WriteSpec == InitWrite /\ [][NextWrite]_vars

\* ------------------------------------------------- read and Reset cycles
\* A test reads a cursor line by line until ReadLine returns nullopt, calls
\* Reset, and reads again, with the same p_extend_mapping in every call.
\* The cursor is a mapping of the whole file or a window at any offset.
InitReset ==
  /\ NoThreads
  /\ disk \in Disks
  /\ reads = <<>>
  /\ \/ /\ chunk_size_ = Len(disk)
        /\ mmf_ = OpenFull(disk)
     \/ \E offset \in 0..MaxBytes :
          /\ chunk_size_ \in 1..MaxWindow
          /\ mmf_ \in OpenWindow(disk, offset, chunk_size_)

Resets == {i \in 1..Len(reads) : reads[i].op = "Reset"}

RsReadLine ==
  \E e \in BOOLEAN :
    LET r == ReadLine(mmf_, disk, e)
    IN /\ reads # <<>> =>
            /\ reads[1].p_extend_mapping = e
            /\ reads[Len(reads)].op = "ReadLine" => reads[Len(reads)].line # nullopt
       /\ mmf_' = r.mmf
       /\ reads' = Append(reads, ReadEntry(mmf_, e, r.line))
       /\ UNCHANGED <<disk, chunk_size_>>
       /\ IdleThreads

RsReset ==
  /\ reads # <<>>
  /\ reads[Len(reads)].op = "ReadLine"
  /\ reads[Len(reads)].line = nullopt
  /\ Cardinality(Resets) < MaxCycles
  /\ mmf_' = Reset(mmf_).mmf
  /\ reads' = Append(reads, CallEntry("Reset", mmf_, disk, <<>>, Reset(mmf_).result))
  /\ UNCHANGED <<disk, chunk_size_>>
  /\ IdleThreads

NextReset ==
  \/ RsReadLine
  \/ RsReset

ResetSpec == InitReset /\ [][NextReset]_vars

\* ------------------------------------------- mappings and descriptors
\* The tests MoveConstructor and MoveAssignment hold two MMF objects, mmf1
\* and mmf2.  Here mmf_ holds both, and reads is the history of the system
\* calls that made or released a mapping or a descriptor: open and mmap
\* with what the kernel returned, munmap and close with their argument,
\* and the object that made the call.
Objects == 1..MaxObjects
NoObject == <<>>          \* not constructed yet
Gone == [destroyed |-> TRUE]   \* the destructor has run
Alive(i) == mmf_[i] # NoObject /\ mmf_[i] # Gone
SysCall(op, res, by) == [op |-> op, res |-> res, by |-> by]
\* The kernel hands out a descriptor and an address it has not used before.
NewFd == Fd + Cardinality({k \in 1..Len(reads) : reads[k].op = "open"})
NewAddr == 1 + Cardinality({k \in 1..Len(reads) : reads[k].op = "mmap"})
\* The object an operator of the model returns, with the kernel's values.
Allocated(m, was) ==
  [m EXCEPT !.fd_ = IF @ = Fd /\ was = NoObject THEN NewFd ELSE @,
            !.mapped_ptr_ = IF @ >= 1 /\ (was = NoObject \/ @ # was.mapped_ptr_)
                              THEN NewAddr ELSE @]
\* mmap was called and returned a mapping.
MmapCall(m, was, by) ==
  IF m.mapped_ptr_ >= 1 /\ (was = NoObject \/ m.mapped_ptr_ # was.mapped_ptr_)
    THEN <<SysCall("mmap", NewAddr, by)>> ELSE <<>>

\* if (mapped_ptr_ != MAP_FAILED && mapped_ptr_ != nullptr) munmap(...)
MunmapCall(m, by) ==
  IF m.mapped_ptr_ # MAP_FAILED /\ m.mapped_ptr_ # nullptr
    THEN <<SysCall("munmap", m.mapped_ptr_, by)>> ELSE <<>>

CleanupCalls_NoClose(m, by) == MunmapCall(m, by)

\* MMF::Cleanup, its system calls.
CleanupCalls(m, by) ==
  MunmapCall(m, by)
    \o (IF m.fd_ # -1 THEN <<SysCall("close", m.fd_, by)>> ELSE <<>>)

\* A constructor: open, mmap when there is something to map, and Cleanup on
\* every error path after open (the mapping pointer is MAP_FAILED there).
\* The objects are made in the order mmf1, mmf2.
OwnConstruct(i) ==
  /\ mmf_[i] = NoObject
  /\ \A j \in 1..(i - 1) : mmf_[j] # NoObject
  /\ \E fail \in CtorFails :
       \E m \in {ConstructFull(TRUE, disk, mode, fail) : mode \in OpenModes}
                  \cup UNION {ConstructWindow(TRUE, disk, offset, size, fail) :
                                offset \in 0..MaxOldBytes, size \in 0..MaxOldBytes} :
         LET opened == fail # "open"
         IN /\ mmf_' = [mmf_ EXCEPT ![i] = Allocated(m, NoObject)]
            /\ reads' = reads
                 \o (IF opened THEN <<SysCall("open", NewFd, i)>> ELSE <<>>)
                 \o MmapCall(m, NoObject, i)
                 \o (IF opened /\ ~m.is_valid_
                       THEN CleanupCalls([m EXCEPT !.fd_ = NewFd], i) ELSE <<>>)
  /\ UNCHANGED <<disk, chunk_size_>>
  /\ IdleThreads

\* ReadLine / ReadLineView: GetNextLineBounds unmaps the window before it
\* maps the next one.  (The model reads the window's bytes from the file at
\* offset_; an object that was moved into has another value there, and no
\* read is made on it unless that window lies inside the file.)
OwnReadLine(i) ==
  /\ Alive(i)
  /\ mmf_[i].offset_ + mmf_[i].mapped_size_ <= Len(disk)
  /\ \E e \in BOOLEAN :
       LET m == mmf_[i]
           r == ReadLine(m, disk, e).mmf
           remap == /\ m.is_valid_ /\ m.mapped_ptr_ # nullptr
                    /\ m.current_position_ >= m.mapped_size_
                    /\ e /\ m.file_size_ > m.offset_ + m.mapped_size_
       IN /\ mmf_' = [mmf_ EXCEPT ![i] = Allocated(r, m)]
          /\ reads' = reads
               \o (IF remap THEN MunmapCall(m, i) \o MmapCall(r, m, i) ELSE <<>>)
  /\ UNCHANGED <<disk, chunk_size_>>
  /\ IdleThreads

\* The texts written: one of every length (the bytes written do not decide
\* what is mapped).
OwnTexts == {t \in Texts : \A k \in 1..Len(t) : t[k] = 1}

\* WriteLine: the first mapping of an empty file; a growth unmaps the
\* mapping and maps the longer one.  No other object is using the file.
OwnWriteLine(i) ==
  /\ Alive(i)
  /\ \A j \in Objects \ {i} : Alive(j) => ~mmf_[j].is_valid_
  /\ \E line \in OwnTexts, fail \in WriteFails :
       LET m == mmf_[i]
           r == WriteLine(m, disk, line, fail)
           body == m.is_valid_ /\ m.mapped_ptr_ # MAP_FAILED
                     /\ m.mode_ # "ReadOnly" /\ Len(line) > 0
           first == body /\ m.mapped_ptr_ = nullptr /\ fail # "ftruncate"
           grow == /\ body /\ m.mapped_ptr_ # nullptr /\ fail # "ftruncate"
                   /\ m.current_position_ + Len(line) + 1 > m.mapped_size_
       IN /\ Len(r.disk) <= MaxBytes
          /\ mmf_' = [mmf_ EXCEPT ![i] = Allocated(r.mmf, m)]
          /\ disk' = r.disk
          /\ reads' = reads
               \o (IF first THEN MmapCall(r.mmf, m, i)
                   ELSE IF grow THEN <<SysCall("munmap", m.mapped_ptr_, i)>>
                                       \o MmapCall(r.mmf, m, i)
                   ELSE <<>>)
  /\ UNCHANGED chunk_size_
  /\ IdleThreads

\* What a move leaves in the object moved from.
MovedFrom(other) ==
  [other EXCEPT !.fd_ = -1, !.mapped_ptr_ = MAP_FAILED, !.file_size_ = 0,
                !.mapped_size_ = 0, !.current_position_ = 0,
                !.is_valid_ = FALSE, !.last_error_ = "None"]

\* MMF(MMF&& other): every member but offset_ is taken from other, and
\* offset_ has no initialiser.
OwnMoveConstruct(i, other) ==
  /\ mmf_[i] = NoObject /\ Alive(other)
  /\ \A j \in 1..(i - 1) : mmf_[j] # NoObject
  /\ \E o \in 0..MaxOldBytes :
       mmf_' = [mmf_ EXCEPT ![i] = [mmf_[other] EXCEPT !.offset_ = o],
                            ![other] = MovedFrom(mmf_[other])]
  /\ UNCHANGED <<disk, chunk_size_, reads>>
  /\ IdleThreads

\* operator=(MMF&& other): Cleanup, then every member but offset_ is taken
\* from other.
OwnMoveAssign(i, other) ==
  /\ Alive(i) /\ Alive(other) /\ i # other
  /\ mmf_' = [mmf_ EXCEPT ![i] = [mmf_[other] EXCEPT !.offset_ = mmf_[i].offset_],
                          ![other] = MovedFrom(mmf_[other])]
  /\ reads' = reads \o CleanupCalls(mmf_[i], i)
  /\ UNCHANGED <<disk, chunk_size_>>
  /\ IdleThreads

\* MMF::~MMF
OwnDestroy(i) ==
  /\ Alive(i)
  /\ mmf_' = [mmf_ EXCEPT ![i] = Gone]
  /\ reads' = reads \o CleanupCalls(mmf_[i], i)
  /\ UNCHANGED <<disk, chunk_size_>>
  /\ IdleThreads

InitOwn ==
  /\ NoThreads
  /\ disk \in {d \in Disks : Len(d) <= MaxApiBytes /\ \A k \in 1..Len(d) : d[k] <= 1}
  /\ chunk_size_ = 0
  /\ mmf_ = [i \in Objects |-> NoObject]
  /\ reads = <<>>

NextOwn ==
  \/ \E i \in Objects : OwnConstruct(i)
  \/ \E i \in Objects : OwnReadLine(i)
  \/ \E i \in Objects : OwnWriteLine(i)
  \/ \E i \in Objects : \E other \in Objects : OwnMoveConstruct(i, other)
  \/ \E i \in Objects : \E other \in Objects : OwnMoveAssign(i, other)
  \/ \E i \in Objects : OwnDestroy(i)

OwnSpec == InitOwn /\ [][NextOwn]_vars

\* ================================================================ claims
Range(q) == {q[i] : i \in 1..Len(q)}
ThreadStep(t) == IF t = Consumer THEN ConsumerStep(t) ELSE ProducerStep(t)

\* C4: the values the consumer gets from any mix of Dequeue and TryDequeue
\* come in exactly the order in which they were appended under the mutex,
\* also when they pass through the consumer-side cache: the dequeued
\* sequence is a prefix of the appended sequence.
C4_GlobalFifo ==
  /\ Len(deqLog) <= Len(enqLog)
  /\ \A i \in 1..Len(deqLog) : deqLog[i] = enqLog[i]

\* C4 witness: an item was returned while older items sit in the cache and a
\* newer one in the shared queue, appended by a different producer.
C4_Witness ==
  /\ Len(deqLog) >= 1
  /\ cache_ # <<>>
  /\ queue_ # <<>>
  /\ Head(queue_).symbol_ # Head(cache_).symbol_

\* C5: every value returned to the consumer was enqueued before, none is
\* returned twice, and when as many values were returned as were enqueued,
\* each enqueued value was returned exactly once.
C5_NoLossNoDuplication ==
  /\ Range(deqLog) \subseteq Range(enqLog)
  /\ \A i \in 1..Len(deqLog) : \A j \in 1..Len(deqLog) :
        i # j => deqLog[i] # deqLog[j]
  /\ Len(deqLog) = Len(enqLog) => Range(deqLog) = Range(enqLog)

\* C5 witness: several producers enqueued and everything was dequeued.
C5_Witness ==
  /\ Len(deqLog) = Len(enqLog)
  /\ Len(deqLog) >= 3
  /\ \E i \in 1..Len(deqLog) : deqLog[i].symbol_ # deqLog[1].symbol_

\* C10: TryDequeue does not wait on the condition; it returns nullopt
\* exactly when the cache and the shared queue hold nothing at the call,
\* otherwise it returns the oldest pending item, which is then no longer
\* pending.
C10_TryDequeue ==
  /\ pc[Consumer] = "try_return" =>
       /\ tryObs # <<>>
       /\ tryObs[2] = tryObs[1]
       /\ tryObs[2] # nullopt => tryObs[2][1] \notin Range(Pending)
       /\ Consumer \notin cv_
       /\ mutex_ # Consumer
  /\ (pc[Consumer] = "idle" /\ (cache_ # <<>> \/ mutex_ = Free)) =>
       ENABLED TryDequeue(Consumer)

\* C10 witness: a TryDequeue that found nothing came back empty-handed
\* although items had been enqueued and dequeued before ...
C10_Witness ==
  /\ pc[Consumer] = "try_return"
  /\ tryObs = <<nullopt, nullopt>>
  /\ Len(deqLog) >= 2

\* C8: IsDone() is false while fewer than total_files_ ProducerDone calls
\* were made since the last reset, true once total_files_ calls were made,
\* and false right after ResetDoneFileCount stored the zero.
C8_IsDone ==
  /\ doneCalls < total_files_ => ~IsDone
  /\ doneCalls = total_files_ => IsDone
  /\ (pc[Consumer] = "reset_notify" /\ doneCalls = 0) => ~IsDone

\* C8 witness: the last of the expected ProducerDone calls was just made,
\* every producer has made one.
C8_Witness ==
  /\ doneCalls = total_files_
  /\ IsDone
  /\ \A p \in Producers : pc[p] \in {"pd_notify", "wait_lock", "wait_enter", "wait_blocked"}

\* C7: Enqueue, BulkEnqueue and ProducerDone never wait on the condition
\* variable: the wait set holds only threads inside Dequeue or
\* WaitUntilDoneFileReset, the notify half of each of the three calls can
\* always run, their locked half can run whenever the mutex is free, and a
\* thread that holds the mutex is not blocked: it can take its next step,
\* which releases the mutex.
C7_ProducersNeverWait ==
  /\ \A t \in cv_ : pc[t] \in {"deq_blocked", "wait_blocked"}
  /\ \A p \in Producers :
       pc[p] \in {"enq_notify", "bulk_notify", "pd_notify"} =>
         ENABLED ProducerStep(p)
  /\ \A p \in Producers :
       (pc[p] = "idle" /\ mutex_ = Free) =>
         /\ ENABLED EnqueueLocked(p, NextItem(p, 0), "enq_notify")
         /\ ENABLED BulkEnqueueLocked(p, <<NextItem(p, 0), NextItem(p, 1)>>, "bulk_notify")
  /\ \A p \in Producers :
       pc[p] = "idle" => ENABLED ProducerDoneIncrement(p, "pd_notify")
  /\ mutex_ # Free =>
       /\ mutex_ \notin cv_
       /\ ENABLED ThreadStep(mutex_)
       /\ pc[mutex_] \in {"deq_wait", "wait_enter"}

\* C7 witness: a producer is in the middle of Enqueue with the whole item
\* budget already pending, nothing was ever dequeued, the consumer is not
\* inside any call, and another producer is blocked in the barrier wait.
C7_Witness ==
  /\ \E p \in Producers : pc[p] = "enq_notify"
  /\ Len(queue_) >= 3
  /\ deqLog = <<>>
  /\ pc[Consumer] = "idle"
  /\ \E p \in Producers : pc[p] = "wait_blocked"

\* C9: as long as no reset followed a reader's ProducerDone, the reader has
\* not returned from the WaitUntilDoneFileReset that follows it; and a
\* return from the wait happens only in a step that reads the counter as 0.
C9_WaitReturnsAfterReset ==
  /\ [](\A r \in Producers :
          barrier[r] = "done" =>
            pc[r] \in {"run_pd_notify", "run_wait_lock",
                       "run_wait_enter", "run_wait_blocked"})
  /\ [][\A r \in Producers :
          (pc[r] = "run_wait_lock" /\ pc'[r] = "run_enqueue") =>
            done_file_count_ = 0]_vars

\* C9 witness: a reader called ProducerDone, a reset followed, and the
\* reader is back from the wait, about to enqueue the new bucket's record.
C9_Witness ==
  \E r \in Producers : barrier[r] = "reset" /\ pc[r] = "run_enqueue"

\* The record of line i of reader r's file, as Run enqueues it.
RecordOf(r, i) == MktDataMessage(r, i, GetHourFromTimestamp(file[r][i]))

\* C1: when a record of some time bucket is in the queue's append order,
\* every record of an earlier bucket, of every reader's file, was appended
\* before it and in an earlier epoch (the consumer has reset the done
\* counter in between).
C1_EpochBarrier ==
  \A j \in 1..Len(enqLog) :
    \A r \in Producers : \A i \in 1..Len(file[r]) :
      RecordOf(r, i).batch_id_ < enqLog[j].batch_id_ =>
        \E k \in 1..(j - 1) :
          /\ enqLog[k] = RecordOf(r, i)
          /\ enqEpochs[k] < enqEpochs[j]

\* C2: the dequeued sequence never comes back to a bucket key after a
\* record with another key, and all records appended within one epoch (from
\* the start or a reset to the next reset) carry the same bucket key.
C2_NoInterleaving ==
  /\ \A i \in 1..Len(deqLog) : \A j \in i..Len(deqLog) : \A k \in j..Len(deqLog) :
       deqLog[i].batch_id_ = deqLog[k].batch_id_ =>
         deqLog[j].batch_id_ = deqLog[i].batch_id_
  /\ \A i \in 1..Len(enqLog) : \A j \in 1..Len(enqLog) :
       enqEpochs[i] = enqEpochs[j] =>
         enqLog[i].batch_id_ = enqLog[j].batch_id_

\* C3: a producer that is inside WaitUntilDoneFileReset when the consumer
\* has stored the zero of ResetDoneFileCount eventually returns from the
\* wait.
C3_ResetReleasesWaiters ==
  \A p \in Producers :
    (pc[p] \in {"wait_lock", "wait_enter", "wait_blocked"}
       /\ pc[Consumer] = "reset_notify")
      ~> (pc[p] \notin {"wait_lock", "wait_enter", "wait_blocked"})

RecordsOf(r) == {i \in 1..Len(enqLog) : enqLog[i].symbol_ = r}
InRunWait(r) == pc[r] \in {"run_pd_notify", "run_wait_lock",
                           "run_wait_enter", "run_wait_blocked"}

\* C11: when a reader has reached the end of its file while another reader
\* is at the barrier, that other reader eventually leaves the barrier, and
\* every reader eventually finishes its file.
C11_EofDoesNotStall ==
  /\ \A r \in Producers : \A q \in Producers :
       (pc[q] = "run_done" /\ InRunWait(r)) ~> ~InRunWait(r)
  /\ <>(\A r \in Producers : pc[r] = "run_done")

\* C12: a reader about to enqueue a record whose bucket key differs from
\* that of its previous record has called ProducerDone since that record,
\* a reset has followed and the reader is back from the wait; a reader
\* about to enqueue its first record has made no barrier call.
C12_BarrierOnBucketChange ==
  \A r \in Producers :
    pc[r] = "run_enqueue" =>
      IF RecordsOf(r) = {}
        THEN barrier[r] = "none"
        ELSE LET last == CHOOSE i \in RecordsOf(r) :
                           \A k \in RecordsOf(r) : k <= i
             IN enqLog[last].batch_id_ # hour[r] => barrier[r] = "reset"

\* C13: once Stop() was called on a reader, its Run eventually returns.
C13_StopTerminatesRun ==
  \A r \in Producers : stop_flag_[r] ~> (pc[r] = "run_done")

\* ----------------------------------------------------------- the cursor
\* The cursor after call i of the history.
After(i) == IF i < Len(reads) THEN reads[i + 1].before ELSE mmf_
\* The logical file offset of a cursor.
FileOffset(m) == m.offset_ + m.current_position_
\* The reading has ended: the last call returned nullopt.
ReadToEnd == reads # <<>> /\ reads[Len(reads)].line = nullopt
\* The lines returned so far.
ReturnedLines ==
  [i \in 1..(IF ReadToEnd THEN Len(reads) - 1 ELSE Len(reads)) |->
     reads[i].line[1]]

\* Reading a cursor to the end with ReadLine: the lines it returns.
RECURSIVE ReadAll(_, _, _)
ReadAll(m, d, p_extend_mapping) ==
  LET r == ReadLine(m, d, p_extend_mapping)
  IN IF r.line = nullopt THEN <<>>
     ELSE <<r.line[1]>> \o ReadAll(r.mmf, d, p_extend_mapping)

\* C17: reading with remapping to the end, from a window opened at offset 0
\* or from the whole file, returns the lines that a single mapping of the
\* whole file returns, in the same order.
C17_ChunkedEqualsFull ==
  (ReadToEnd /\ reads[1].p_extend_mapping) =>
    ReturnedLines = ReadAll(OpenFull(disk), disk, TRUE)

\* C18: the mapped length GetMappedSize reports never exceeds the window
\* size the cursor was opened with.
C18_MappedSizeWithinWindow ==
  (mmf_ # <<>> /\ mmf_.is_valid_) => mmf_.mapped_size_ <= chunk_size_

\* C19: a call on a mapped cursor with bytes left in the mapping returns the
\* bytes from the position up to, not including, the next terminator, or up
\* to the end of the mapping if there is none, and moves the position past
\* the terminator if there is one (a terminator at the position gives the
\* empty line); a call at the end of the last mapping returns nullopt with
\* EndOfFile.
C19_ReadLineContract ==
  \A i \in 1..Len(reads) :
    LET b == reads[i].before
        a == After(i)
        res == reads[i].line
        mayRemap == reads[i].p_extend_mapping
                      /\ b.file_size_ > b.offset_ + b.mapped_size_
    IN (b.is_valid_ /\ b.mapped_ptr_ >= 1) =>
         /\ b.current_position_ < b.mapped_size_ =>
              /\ res # nullopt
              /\ a.last_error_ = "None"
              /\ a.mapped_ptr_ = b.mapped_ptr_ /\ a.offset_ = b.offset_
              /\ LET n == Len(res[1])
                     from == b.offset_ + b.current_position_
                     stop == b.offset_ + b.mapped_size_
                 IN /\ \A k \in 1..n : res[1][k] = disk[from + k] /\ res[1][k] # NL
                    /\ from + n <= stop
                    /\ IF from + n < stop
                         THEN /\ disk[from + n + 1] = NL
                              /\ a.current_position_ = b.current_position_ + n + 1
                         ELSE a.current_position_ = b.current_position_ + n
         /\ (b.current_position_ >= b.mapped_size_ /\ ~mayRemap) =>
              /\ res = nullopt
              /\ a.last_error_ = "EndOfFile"

\* C19 witness: the whole file is mapped; an empty line, then a final line
\* without terminator were returned, and the call after the last byte
\* failed with EndOfFile.
C19_Witness ==
  /\ Len(reads) >= 3
  /\ reads[1].before = OpenFull(disk)
  /\ ReadToEnd
  /\ mmf_.last_error_ = "EndOfFile"
  /\ disk[Len(disk)] # NL
  /\ reads[Len(reads) - 1].line # Some(<<>>)
  /\ \E i \in 1..Len(reads) : reads[i].line = Some(<<>>)

\* The bytes by which call i moved the cursor in the file.
Advance(i) == FileOffset(After(i)) - FileOffset(reads[i].before)

\* The bytes the first i calls took from the file: each returned line,
\* followed by a terminator when the cursor moved one byte further than the
\* line is long.
RECURSIVE Taken(_)
Taken(i) ==
  IF i = 0 THEN <<>>
  ELSE Taken(i - 1) \o reads[i].line[1] \o
       (IF Advance(i) = Len(reads[i].line[1]) + 1 THEN <<NL>> ELSE <<>>)

\* Every byte of the file was taken exactly once, in order, when EndOfFile
\* is reported, and the cursor stands at the end of the file.
ConsumedAll ==
  /\ \A i \in 1..Len(ReturnedLines) :
       Advance(i) \in {Len(reads[i].line[1]), Len(reads[i].line[1]) + 1}
  /\ Taken(Len(ReturnedLines)) = disk
  /\ Len(Taken(Len(ReturnedLines))) = mmf_.file_size_
  /\ FileOffset(mmf_) = mmf_.file_size_

\* C20 as stated: for every file opened read-only, however it is mapped and
\* read, when EndOfFile is reported the lines returned plus the terminators
\* consumed are the whole file and the cursor's file offset is its length.
C20_ConsumesEveryByte ==
  (ReadToEnd /\ mmf_.last_error_ = "EndOfFile") => ConsumedAll

\* C20 amended: the same, for a cursor that maps the whole file or is read
\* with remapping (p_extend_mapping = true); a window read without
\* remapping reports EndOfFile at the end of the window.
C20_ConsumesEveryByteWhenExtending ==
  (ReadToEnd /\ mmf_.last_error_ = "EndOfFile"
     /\ (reads[1].p_extend_mapping
           \/ reads[1].before.mapped_size_ = reads[1].before.file_size_)) =>
    ConsumedAll

\* C20 witness: a window shorter than the file was read with remapping to
\* EndOfFile, through at least two remaps, and a terminator was consumed.
C20_Witness ==
  /\ ReadToEnd
  /\ mmf_.last_error_ = "EndOfFile"
  /\ reads[1].p_extend_mapping
  /\ reads[1].before.mapped_size_ < reads[1].before.file_size_
  /\ mmf_.mapped_ptr_ >= 3
  /\ \E i \in 1..Len(ReturnedLines) : Advance(i) = Len(reads[i].line[1]) + 1

\* ------------------------------------------- the reader on its cursor
\* The lines of the file: what reading a mapping of the whole file returns.
FileLines == ReadAll(OpenFull(disk), disk, FALSE)
Enqueueable(line) == Len(line) > 0 /\ Len(line) <= chunk_size_

\* C14: a reader that ran to EndOfFile has enqueued exactly one record
\* {symbol, payload, bucket} for every line of its file that is neither
\* empty nor longer than the chunk size, in file order, the payload being
\* the line's bytes and the bucket the line's hour.
C14_OneRecordPerLine ==
  (pc[ChunkReader] = "run_done" /\ mmf_.last_error_ = "EndOfFile") =>
    LET expected == SelectSeq(FileLines, Enqueueable)
    IN /\ Len(enqLog) = Len(expected)
       /\ \A i \in 1..Len(enqLog) :
            /\ enqLog[i].symbol_ = ChunkReader
            /\ ViewBytes(enqLog[i].mkt_data_, disk) = expected[i]
            /\ enqLog[i].batch_id_ = GetHourFromLine(expected[i])

\* C15: the payload of every enqueued record is a whole line of the file:
\* it starts at the start of the file or right after a terminator, and ends
\* at the end of the file or right before a terminator.
C15_NoLineFragments ==
  \A i \in 1..Len(enqLog) :
    LET v == enqLog[i].mkt_data_
    IN /\ v.off = 0 \/ disk[v.off] = NL
       /\ v.off + v.len = Len(disk) \/ disk[v.off + v.len + 1] = NL

\* C16: the payload view of every record waiting in the queue points into
\* the mapping the reader's cursor currently holds.
C16_ViewsStayMapped ==
  \A i \in 1..Len(Pending) :
    Pending[i].mkt_data_.ptr = mmf_.mapped_ptr_

\* ------------------------------------------------- the MMF object's calls
\* The constructor call and the most recent call; right after the
\* constructor the object is as the constructor made it.
Ctor == reads[1]
JustConstructed == Len(reads) = 1
LastCall == reads[Len(reads)]
Called(op) == Len(reads) = 2 /\ reads[2].op = op
NoMapping(m) == m.mapped_ptr_ = nullptr \/ m.mapped_ptr_ = MAP_FAILED
\* mmap is reached by the constructor and there is something to map
CtorMaps ==
  /\ Ctor.arg.exists
  /\ IF Ctor.arg.window
       THEN /\ Ctor.arg.offset < Len(Ctor.disk)
            /\ Ctor.arg.size > 0 \/ Ctor.arg.offset % PageSize # 0
       ELSE Len(Ctor.disk) > 0

C26_NotMappedWithoutMapping ==
  /\ (Called("ReadLine") \/ Called("ReadLineView")) =>
       ((~IsValid(LastCall.before) \/ NoMapping(LastCall.before)) =>
          /\ LastCall.result = nullopt
          /\ GetLastError(mmf_) = "NotMapped")
  /\ (Called("Reset") \/ Called("SetPosition")) =>
       (~IsValid(LastCall.before) =>
          /\ LastCall.result = "NotMapped"
          /\ GetLastError(mmf_) = "NotMapped")
  /\ ~IsValid(mmf_) =>
       /\ GetCurrentPosition(mmf_) = nullopt
       /\ GetMappedSize(mmf_) = nullopt
       /\ GetFileSize(mmf_) = nullopt
       /\ GetData(mmf_) = nullopt
       /\ IsEOF(mmf_)

\* C27: a zero-length file opened read-only gives a valid object that is at
\* end-of-stream at once: IsEOF() is true, and the first ReadLine returns no
\* line with last error EndOfFile.
C27_EmptyFileIsAtEndOfFile ==
  (Ctor.arg.exists /\ ~Ctor.arg.window /\ Ctor.arg.fail = "none"
     /\ Len(Ctor.disk) = 0) =>
    /\ JustConstructed => IsValid(mmf_) /\ IsEOF(mmf_)
    /\ (Called("ReadLine") /\ LastCall.before = OpenFull(<<>>)) =>
         /\ LastCall.result = nullopt
         /\ GetLastError(mmf_) = "EndOfFile"

\* C28: SetPosition(p) on a valid cursor succeeds and sets the position to
\* exactly p when p <= mapped length; when p > mapped length it fails with
\* InvalidPosition, stores that as the last error and leaves the position
\* as it was.
C28_SetPosition ==
  (Called("SetPosition") /\ IsValid(LastCall.before)) =>
    IF LastCall.arg <= LastCall.before.mapped_size_
      THEN /\ LastCall.result = "None"
           /\ mmf_.current_position_ = LastCall.arg
      ELSE /\ LastCall.result = "InvalidPosition"
           /\ GetLastError(mmf_) = "InvalidPosition"
           /\ mmf_.current_position_ = LastCall.before.current_position_

C28_Witness ==
  /\ Called("SetPosition") /\ IsValid(LastCall.before)
  /\ LastCall.before.current_position_ = 0
  /\ LastCall.arg = LastCall.before.mapped_size_ /\ LastCall.arg > 0
  /\ mmf_.current_position_ = LastCall.arg

\* C29: after an MMF operation that fails, GetLastError() returns the error
\* kind that the operation reported as its result.
C29_LastErrorIsReportedError ==
  ((Called("WriteLine") \/ Called("Reset") \/ Called("SetPosition"))
     /\ LastCall.result # "None") =>
    GetLastError(mmf_) = LastCall.result

\* -------------------------------------------------- writing, reading back
\* The WriteLine calls of the history, the file after call i, and the
\* length of the content of a file: what precedes the NUL bytes that
\* ftruncate added at its end.
WriteCalls == {i \in 2..Len(reads) : reads[i].op = "WriteLine"}
DiskAfter(i) == IF i < Len(reads) THEN reads[i + 1].disk ELSE disk
ContentLen(d) ==
  IF \A k \in 1..Len(d) : d[k] = NUL THEN 0
  ELSE CHOOSE n \in 1..Len(d) :
         d[n] # NUL /\ \A k \in (n + 1)..Len(d) : d[k] = NUL
\* WriteLine call i unmapped a mapping and mapped a longer one.
Grew(i) ==
  /\ reads[i].before.mapped_ptr_ >= 1
  /\ After(i).mapped_size_ > reads[i].before.mapped_size_
\* The test has written to a fresh file, closed it, opened it again and
\* read it until ReadLine returned no line.
WrittenAndReadBack ==
  /\ Ctor.arg.mode = "ReadWrite" /\ Len(Ctor.disk) = 0 /\ Ctor.result = "None"
  /\ WriteCalls # {}
  /\ \A i \in WriteCalls : reads[i].result = "None"
  /\ \E i \in WriteCalls : Grew(i)
  /\ ~Writing
  /\ LastCall.op = "ReadLine" /\ LastCall.result = nullopt
WrittenLines == [k \in 1..Cardinality(WriteCalls) |-> reads[k + 1].arg]
ReadBackLines ==
  LET n == Cardinality(WriteCalls)
  IN [k \in 1..(Len(reads) - n - 4) |-> reads[n + 3 + k].result[1]]

\* C22: N non-empty lines written with WriteLine to a fresh ReadWrite file,
\* with at least one growth remap, then the file closed and read through a
\* new ReadWrite open until ReadLine returns no line: the lines read are
\* exactly the N written lines, in order, and nothing else.
C22_WriteThenReadBack ==
  WrittenAndReadBack => ReadBackLines = WrittenLines

\* C23: WriteLine is append-only.  No call, successful or failed, changes a
\* byte of content that was already in the file, and a successful call puts
\* its line and the terminator right after the existing content.
C23_WriteLineAppendOnly ==
  \A i \in WriteCalls :
    LET d0 == reads[i].disk
        d1 == DiskAfter(i)
        line == reads[i].arg
        c == ContentLen(d0)
    IN /\ \A k \in 1..c : k <= Len(d1) /\ d1[k] = d0[k]
       /\ reads[i].result = "None" =>
            /\ Len(d1) >= c + Len(line) + 1
            /\ SubSeq(d1, c + 1, c + Len(line) + 1) = line \o <<NL>>

\* C24: WriteLine fails with WriteError if the window is read-only, if the
\* object is invalid, or if the text is empty, and then the file, the
\* mapping and the position are as before the call.
C24_WriteLineRejects ==
  \A i \in WriteCalls :
    LET m == reads[i].before
    IN (m.mode_ = "ReadOnly" \/ ~IsValid(m) \/ Len(reads[i].arg) = 0) =>
         /\ reads[i].result = "WriteError"
         /\ After(i) = m
         /\ DiskAfter(i) = reads[i].disk

\* -------------------------------------------------- read and Reset cycles
\* The lines that the ReadLine calls from..to of the history returned.
LinesOf(from, to) == [k \in 1..(to - from + 1) |-> reads[from + k - 1].line[1]]
FirstReset == CHOOSE i \in Resets : \A j \in Resets : i <= j
LastReset == CHOOSE i \in Resets : \A j \in Resets : j <= i
\* A read sequence after a Reset has come to its end.
CycleDone ==
  /\ Resets # {}
  /\ reads[1].before.is_valid_
  /\ reads[Len(reads)].op = "ReadLine"
  /\ reads[Len(reads)].line = nullopt

\* C21: for every valid read cursor (the whole file, a window at any
\* offset, a window that was remapped), Reset() followed by a full read
\* sequence returns the same lines in the same order as the first read
\* sequence, in every read/Reset cycle.
C21_ResetReproducesLines ==
  CycleDone =>
    LinesOf(LastReset + 1, Len(reads) - 1) = LinesOf(1, FirstReset - 2)

\* ------------------------------------------------------- the read remap
\* Read call i of the history unmapped the window and mapped the next one.
Remapped(i) == After(i).mapped_ptr_ # reads[i].before.mapped_ptr_

C31_PositionWithinMapping ==
  mmf_ # <<>> /\ mmf_.is_valid_ =>
    /\ 0 <= mmf_.current_position_
    /\ mmf_.current_position_ <= mmf_.mapped_size_

\* ------------------------------------------------------ the done counter
\* A reader's ProducerDone increment and the consumer's reset, as steps.
DoneStep == \E r \in Producers :
  pc[r] = "run_producer_done" /\ pc'[r] = "run_pd_notify"
ResetStep == pc[Consumer] = "idle" /\ pc'[Consumer] = "reset_notify"

\* C32: between two consecutive ResetDoneFileCount calls the done counter
\* never decreases: it changes only by +1, in a ProducerDone.  It is set to
\* zero once per epoch transition, by the consumer's reset and by nothing
\* else.
C32_CounterSteps ==
  [][/\ done_file_count_' # done_file_count_ =>
          \/ done_file_count_' = done_file_count_ + 1 /\ DoneStep /\ ~ResetStep
          \/ done_file_count_' = 0 /\ ResetStep /\ ~DoneStep
     /\ DoneStep => done_file_count_' = done_file_count_ + 1
     /\ ResetStep <=> epoch' = epoch + 1
     /\ ResetStep => done_file_count_' = 0 /\ done_file_count_ > 0
     /\ epoch' # epoch => epoch' = epoch + 1]_vars

\* C32 witness: every reader has counted itself done a second time and the
\* consumer has just made the second epoch transition.
C32_Witness ==
  epoch = 2 /\ done_file_count_ = 0 /\ pc[Consumer] = "reset_notify"

\* ------------------------------------------------- the window's geometry
\* The window constructor got as far as deciding what to map: the file
\* exists, no system call failed, and the offset lies inside the file.
WindowOpened ==
  /\ Ctor.arg.window /\ Ctor.arg.exists /\ Ctor.arg.fail = "none"
  /\ Ctor.arg.offset < Len(Ctor.disk)
AlignedOffset == (Ctor.arg.offset \div PageSize) * PageSize
WindowLength ==
  (Ctor.arg.offset - AlignedOffset)
    + Min(Ctor.arg.size, Len(Ctor.disk) - Ctor.arg.offset)
\* The last call was made on the object as the constructor left it.
OnFreshWindow ==
  /\ Len(reads) = 2
  /\ reads[2].before.current_position_ = Ctor.arg.offset - AlignedOffset
  /\ reads[2].before.mapped_size_ = WindowLength
  /\ reads[2].before.mapped_ptr_ = 1
  /\ reads[2].before.offset_ = AlignedOffset

\* C33: a partial mapping opened at offset o with length n on a file of
\* length L > o starts at the page boundary floor(o / pageSize) * pageSize,
\* has mapped length (o - aligned offset) + min(n, L - o) and initial
\* position o - aligned offset, so the first ReadLine starts at file byte o.
C33_WindowGeometry ==
  WindowOpened =>
    /\ JustConstructed =>
         /\ mmf_.is_valid_
         /\ mmf_.mapped_size_ = WindowLength
         /\ mmf_.mapped_size_ > 0 =>
              /\ mmf_.mapped_ptr_ = 1
              /\ mmf_.offset_ = AlignedOffset
              /\ mmf_.offset_ % PageSize = 0
              /\ mmf_.current_position_ = Ctor.arg.offset - AlignedOffset
              /\ FileOffset(mmf_) = Ctor.arg.offset
    /\ Called("ReadLine") /\ OnFreshWindow =>
         /\ Ctor.arg.size >= 1 => reads[2].result # nullopt
         /\ reads[2].result # nullopt =>
              reads[2].result[1] =
                SubSeq(disk, Ctor.arg.offset + 1,
                       Ctor.arg.offset + Len(reads[2].result[1]))

\* C33 witness: a window at an offset that is not a page boundary, and the
\* first ReadLine returned a line with bytes in it.
C33_Witness ==
  /\ WindowOpened /\ Called("ReadLine") /\ OnFreshWindow
  /\ Ctor.arg.offset % PageSize # 0
  /\ reads[2].result # nullopt /\ Len(reads[2].result[1]) > 0

\* ---------------------------------------------------- the write's sizes
RECURSIVE Pow2(_)
Pow2(k) == IF k = 0 THEN 1 ELSE 2 * Pow2(k - 1)
\* S * 2^k for the smallest k >= 1 with needed <= S * 2^k.
Doubled(S, needed) ==
  LET k == CHOOSE k \in 1..(MaxFile + 1) :
             /\ needed <= S * Pow2(k)
             /\ \A j \in 1..(k - 1) : needed > S * Pow2(j)
  IN S * Pow2(k)
\* WriteLine call i got past its guards: a valid ReadWrite object, a text
\* of at least one byte.
Wrote(i) ==
  /\ reads[i].before.is_valid_ /\ reads[i].before.mapped_ptr_ # MAP_FAILED
  /\ reads[i].before.mode_ = "ReadWrite"
  /\ Len(reads[i].arg) >= 1

\* C34: WriteLine of n >= 1 bytes at position p.  On a fresh empty file the
\* first mapping has length exactly n + 1.  When p + n + 1 exceeds the
\* mapped length S > 0 the file is truncated to and remapped at S * 2^k for
\* the smallest k >= 1 with p + n + 1 <= S * 2^k.  After every successful
\* WriteLine the position is p + n + 1 and does not exceed the mapped
\* length.
C34_WriteSizes ==
  \A i \in WriteCalls :
    Wrote(i) =>
      LET b == reads[i].before
          a == After(i)
          n == Len(reads[i].arg)
          pp == b.current_position_
          S == b.mapped_size_
          done == reads[i].result \in {"None", "MapFailed"}
                    \/ (reads[i].result = "WriteError" /\ a.current_position_ # pp)
      IN /\ (b.mapped_ptr_ = nullptr /\ done) =>
              /\ a.mapped_size_ = n + 1
              /\ Len(DiskAfter(i)) = n + 1
         /\ (b.mapped_ptr_ # nullptr /\ S > 0 /\ pp + n + 1 > S /\ done) =>
              /\ a.mapped_size_ = Doubled(S, pp + n + 1)
              /\ Len(DiskAfter(i)) = Doubled(S, pp + n + 1)
              /\ a.mapped_ptr_ # b.mapped_ptr_
         /\ (b.mapped_ptr_ # nullptr /\ pp + n + 1 <= S) =>
              /\ a.mapped_size_ = S
              /\ a.mapped_ptr_ = b.mapped_ptr_
              /\ Len(DiskAfter(i)) = Len(reads[i].disk)
         /\ reads[i].result = "None" =>
              /\ a.current_position_ = pp + n + 1
              /\ a.current_position_ <= a.mapped_size_
              /\ a.is_valid_

\* C34 witness: a successful WriteLine that had to double the mapping more
\* than once.
C34_Witness ==
  \E i \in WriteCalls :
    /\ Wrote(i) /\ reads[i].result = "None"
    /\ reads[i].before.mapped_size_ > 0
    /\ After(i).mapped_size_ >= 4 * reads[i].before.mapped_size_

\* A successful first WriteLine on a fresh empty file, and a second one
\* that grew the mapping.
FreshFileWritten ==
  /\ Len(reads) >= 3
  /\ Wrote(2) /\ reads[2].result = "None" /\ reads[2].before.mapped_ptr_ = nullptr
  /\ reads[3].op = "WriteLine" /\ reads[3].result = "None"

\* --------------------------------------------------- the object's life
\* The call made in this step (the last entry of the history after it).
StepOp == reads'[Len(reads')].op
MemberCalls == {"ReadLine", "ReadLineView", "WriteLine", "Reset", "SetPosition"}
\* What an object holds of the file: its mapping and its descriptor.
MappingState(m) ==
  <<m.is_valid_, m.mapped_ptr_, m.mapped_size_, m.offset_, m.file_size_, m.fd_>>

Made(op, res, n) == Cardinality({k \in 1..n : reads[k].op = op /\ reads[k].res = res})
LiveMaps(n) ==
  {reads[k].res : k \in {j \in 1..n : reads[j].op = "mmap"
                           /\ Made("munmap", reads[j].res, n) = 0}}
LiveFds(n) ==
  {reads[k].res : k \in {j \in 1..n : reads[j].op = "open"
                           /\ Made("close", reads[j].res, n) = 0}}
HeldMap(i) == IF Alive(i) /\ mmf_[i].mapped_ptr_ >= 1 THEN {mmf_[i].mapped_ptr_} ELSE {}
HeldFd(i) == IF Alive(i) /\ mmf_[i].fd_ # -1 THEN {mmf_[i].fd_} ELSE {}

BulkStep(p) == pc[p] = "idle" /\ pc'[p] = "bulk_notify"
\* The batch that producer p appended last, while its notify_all is pending.
LastBatch(p) ==
  <<MktDataMessage(p, nextSeq[p] - 2, 0), MktDataMessage(p, nextSeq[p] - 1, 0)>>

\* C37: BulkEnqueue appends its whole batch atomically.  The batch goes to
\* the end of what is pending, whole and in batch order, in one step under
\* the mutex; what the consumer dequeued followed by what is pending is at
\* all times what was appended, in that order.  So the items of a batch are
\* dequeued contiguously and in batch order, with no item of another
\* producer between two of them.
C37_BatchAtomic ==
  [][/\ \A p \in Producers :
          BulkStep(p) =>
            /\ enqLog' = enqLog \o <<NextItem(p, 0), NextItem(p, 1)>>
            /\ Pending' = Pending \o <<NextItem(p, 0), NextItem(p, 1)>>
            /\ deqLog' = deqLog
     /\ deqLog \o Pending = enqLog
     /\ deqLog' \o Pending' = enqLog']_vars

\* C37 witness: the consumer has dequeued both items of a batch, one right
\* after the other, and an item of another producer before them.
C37_Witness ==
  \E p \in Producers :
    /\ pc[p] = "bulk_notify"
    /\ Len(deqLog) = 3
    /\ SubSeq(deqLog, 2, 3) = LastBatch(p)
    /\ deqLog[1].symbol_ # p

\* ------------------------------------------ one ProducerDone per epoch
\* C38: with P readers sharing the queue the done counter never exceeds P.
\* Each reader contributes at most one ProducerDone between two consecutive
\* resets: a reader that has made its ProducerDone does not reach another
\* one before it has returned from WaitUntilDoneFileReset, and it returns
\* only after a reset.
C38_CounterAtMostReaders ==
  /\ done_file_count_ <= NumProducers
  /\ done_file_count_ = Cardinality({r \in Producers : barrier[r] = "done"})
  /\ \A r \in Producers :
       /\ pc[r] = "run_producer_done" => barrier[r] # "done"
       /\ (barrier[r] = "done" /\ pc[r] # "run_pd_notify") => InWait(r)

\* C38 witness: a reader that went through a reset has counted itself done a
\* second time, at its second bucket change.
C38_Witness ==
  \E r \in Producers :
    /\ epoch >= 1
    /\ barrier[r] = "done"
    /\ done_file_count_ >= 1

\* ------------------------------------------------ progress of the epochs
\* The records of all files, and those the consumer got.
AllRecords == {<<r, i>> : r \in Producers, i \in 1..MaxBuckets}
Dequeued == {<<deqLog[k].symbol_, deqLog[k].mkt_data_>> : k \in 1..Len(deqLog)}

\* C39: with P readers, an expected producer count of P, files that all hold
\* the same sequence of time buckets, and a consumer that keeps dequeuing
\* and resets whenever IsDone() holds and the queue is drained, the system
\* never comes to rest with a reader blocked while a line is unread or a
\* record is not dequeued: every line is eventually dequeued.
C39_EveryLineDequeued == <>(Dequeued = AllRecords)

\* ------------------------------------------------------- after Stop()
\* How far a reader is in the iteration on the line it holds: at the loop
\* head, before ProducerDone, inside ProducerDone, in the barrier wait,
\* before Enqueue, inside Enqueue, out of the loop.
Stage(l) ==
  CASE l = "run_loop" -> 0
    [] l = "run_producer_done" -> 1
    [] l = "run_pd_notify" -> 2
    [] l \in {"run_wait_lock", "run_wait_enter", "run_wait_blocked"} -> 3
    [] l = "run_enqueue" -> 4
    [] l = "run_enq_notify" -> 5
    [] l = "run_done" -> 6
ByReader(r) == {k \in 1..Len(enqLog) : enqLog[k].symbol_ = r}

\* C40: the stop flag is checked once per loop iteration.  After Stop() has
\* been called on a reader, the reader takes no further line: it only moves
\* forward through the iteration on the line it holds, so it passes through
\* ProducerDone at most once more and through Enqueue at most once more,
\* and the loop head takes it out of the loop.
C40_OneIterationAfterStop ==
  [][\A r \in Producers :
       stop_flag_[r] =>
         /\ pos'[r] = pos[r]
         /\ Stage(pc'[r]) >= Stage(pc[r])
         /\ Stage(pc[r]) \in {0, 5} => pc'[r] \in {pc[r], "run_done"}
         /\ Cardinality({k \in 1..Len(enqLog') : enqLog'[k].symbol_ = r})
              <= Cardinality(ByReader(r)) + 1
         /\ enqLog' # enqLog /\ Stage(pc'[r]) = 5 /\ Stage(pc[r]) = 4 =>
              enqLog'[Len(enqLog')].mkt_data_ = pos[r]]_vars

\* C40 witness: a reader left the loop because of the flag, with a line
\* unread, after it enqueued the line it held; the other reader, stopped
\* as well, is still before the ProducerDone of the line it holds.
C40_Witness ==
  \E r \in Producers : \E q \in Producers \ {r} :
    /\ stop_flag_[r] /\ pc[r] = "run_done"
    /\ pos[r] < Len(file[r])
    /\ \E k \in ByReader(r) : enqLog[k].mkt_data_ = pos[r]
    /\ stop_flag_[q] /\ pc[q] = "run_producer_done"

====
